---- MODULE Spec2Model ----
(***************************************************************************)
(* Model of the validation engine of pkg/engine/validation.go: the policy  *)
(* driver (Validate / validateResource), the rule validator                *)
(* (validator.validate and the payload handlers), the foreach iteration    *)
(* (validateForEach / validateElements) and the exception resolver.        *)
(*                                                                         *)
(* Collaborators that live outside validation.go (the JSON context, the    *)
(* match filter, the pattern matcher, the context loader, the condition    *)
(* evaluator) are modelled extensionally: a pattern is the table of the    *)
(* matcher's verdicts per document, a condition is a comparison of one     *)
(* context variable with a value, a match block is the set of documents it *)
(* accepts.                                                                *)
(***************************************************************************)
EXTENDS Naturals, Sequences, FiniteSets, TLC

(***************************************************************************)
(* Bounds of the model.                                                    *)
(***************************************************************************)
\* longest expanded rule list of a policy
MaxRules == 3
\* longest element list of a foreach block of the driver's policies
MaxElements == 2
\* longest anyPattern list of a rule
MaxAnyPatterns == 2
\* most calls of Validate the caller makes in a row on the same inputs
MaxCalls == 2

(***************************************************************************)
(* Values.                                                                 *)
(***************************************************************************)
\* JSON objects (resource bodies and foreach elements that are maps)
Objs == {"o1", "o2"}
\* a JSON scalar (a foreach element that is not a map)
Scalars == {"s1"}
\* the JSON null / an unbound variable / an absent string
Null == ""
\* rule names, unique within a policy: the name of the i-th expanded rule
RuleNames == <<"r1", "r2", "r3", "r4", "r5", "r6">>
\* decimal rendering of a foreach index
IndexStr == <<"0", "1", "2", "3", "4", "5">>
\* variables of the JSON context: two context entries, the foreach element
\* bindings (element, elementIndex) and their nesting-scoped copies
ElementVar == <<"element0", "element1", "element2", "element3">>
ElementIndexVar == <<"elementIndex0", "elementIndex1", "elementIndex2", "elementIndex3">>
Vars == {"x", "y", "element", "elementIndex"}
           \cup {ElementVar[n] : n \in 1..Len(ElementVar)}
           \cup {ElementIndexVar[n] : n \in 1..Len(ElementIndexVar)}

\* engineapi.RuleStatus*
RuleStatusPass == "pass"
RuleStatusFail == "fail"
RuleStatusWarn == "warn"
RuleStatusError == "error"
RuleStatusSkip == "skip"

\* kyvernov1.ApplyOne / ApplyAll
ApplyOne == "One"
ApplyAll == "All"

(***************************************************************************)
(* The JSON context: the current bindings and the stack of checkpoints.    *)
(***************************************************************************)
EmptyBindings == [n \in Vars |-> Null]

NewJSONContext == [raw |-> EmptyBindings, checkpoints |-> <<>>]

\* Checkpoint pushes a snapshot of the bindings
Checkpoint(jc) == [jc EXCEPT !.checkpoints = Append(@, jc.raw)]

\* Restore pops the most recent snapshot and makes it the bindings
Restore(jc) ==
    IF jc.checkpoints = <<>> THEN jc
    ELSE [raw |-> jc.checkpoints[Len(jc.checkpoints)],
          checkpoints |-> SubSeq(jc.checkpoints, 1, Len(jc.checkpoints) - 1)]

\* Reset reverts the bindings to the most recent snapshot without popping it
Reset(jc) ==
    IF jc.checkpoints = <<>> THEN jc
    ELSE [jc EXCEPT !.raw = jc.checkpoints[Len(jc.checkpoints)]]

\* AddVariable binds a name
AddVariable(jc, name, value) == [jc EXCEPT !.raw[name] = value]

\* AddElement binds the foreach element and its index, also under the
\* names scoped by the nesting depth
AddElement(jc, data, index, nesting) ==
    [jc EXCEPT !.raw = [n \in Vars |->
        IF n = "element" \/ n = ElementVar[nesting + 1] THEN data
        ELSE IF n = "elementIndex" \/ n = ElementIndexVar[nesting + 1] THEN IndexStr[index + 1]
        ELSE jc.raw[n]]]

(***************************************************************************)
(* Rule responses and messages.  A message is the format text and the one  *)
(* argument spliced into it; timestamps and processing times are left out. *)
(***************************************************************************)
Msg(fmt, arg) == [fmt |-> fmt, arg |-> arg]

\* the nil *RuleResponse
NilResponse == [name |-> Null, status |-> "nil", message |-> Msg("", "")]

\* ruleResponse builds the response of a rule
ruleResponse(rule, msg, status) == [name |-> rule.name, status |-> status, message |-> msg]

\* ruleError builds an Error response whose message is "msg: err"
ruleError(rule, msg, err) == ruleResponse(rule, Msg(msg, err), RuleStatusError)

\* one evaluation step of a rule, recorded in the order of execution
Ev(op, v, arg) == [op |-> op, rule |-> v.rule.name, nesting |-> v.nesting, arg |-> arg]

\* an evaluation step recorded with the bindings of the JSON context it starts from
EvAt(op, v, arg, jc) ==
    [op |-> op, rule |-> v.rule.name, nesting |-> v.nesting, arg |-> arg, raw |-> jc.raw]

(***************************************************************************)
(* The policy language, extensionally.                                     *)
(***************************************************************************)
\* verdicts of validate.MatchPattern: nil, or a PatternError{Path, Skip}
MatchOK == [err |-> FALSE, skip |-> FALSE, path |-> ""]
PatternError(path, skip) == [err |-> TRUE, skip |-> skip, path |-> path]
Verdicts == {MatchOK, PatternError("", TRUE), PatternError("/p", TRUE),
             PatternError("", FALSE), PatternError("/p", FALSE)}

\* any/all conditions: none, a constant, a comparison of a variable with a
\* value, or a tree that does not transform
NoConditions == [kind |-> "nil", key |-> Null, value |-> Null]
ConstCondition(b) == [kind |-> "const", key |-> Null, value |-> IF b THEN "true" ELSE "false"]
CmpCondition(k, val) == [kind |-> "cmp", key |-> k, value |-> val]
InvalidConditions == [kind |-> "invalid", key |-> Null, value |-> Null]

\* a pattern: the variable it mentions (Null: none) and the matcher's verdict per document
NoPattern == [kind |-> "nil", var |-> Null, on |-> [o \in Objs |-> MatchOK]]
Pattern(var, on) == [kind |-> "pat", var |-> var, on |-> on]

\* anyPattern: the raw JSON is nil, a list of patterns, or not an array
NoAnyPattern == [kind |-> "nil", var |-> Null, items |-> <<>>]
AnyPattern(var, items) == [kind |-> "list", var |-> var, items |-> items]
NotArrayAnyPattern == [kind |-> "notarray", var |-> Null, items |-> <<>>]

\* podSecurity: the evaluator's verdict per document: "allowed", "denied" or "error"
NoPodSecurity == [kind |-> "nil", on |-> [o \in Objs |-> "allowed"]]
PodSecurity(on) == [kind |-> "pss", on |-> on]

\* deny: nil, or its any/all conditions
NoDeny == [isNil |-> TRUE, conditions |-> NoConditions]
Deny(c) == [isNil |-> FALSE, conditions |-> c]

\* the foreach list of a rule body: nil, or the blocks
NoForEach == [isNil |-> TRUE, blocks |-> <<>>]
ForEachList(blocks) == [isNil |-> FALSE, blocks |-> blocks]

\* the message template of a rule: its text and the variable it mentions
NoMessage == [text |-> Null, var |-> Null]

\* variables.SubstituteAll on a document that mentions variable var:
\* a variable that is not bound is an error
SubstituteAll(jc, var) ==
    IF var = Null THEN [err |-> FALSE, value |-> Null]
    ELSE IF jc.raw[var] = Null THEN [err |-> TRUE, value |-> Null]
    ELSE [err |-> FALSE, value |-> jc.raw[var]]

\* utils.TransformConditions fails on a tree that is neither any/all nor a list
TransformConditions(c) == [err |-> c.kind = "invalid"]

\* variables.EvaluateConditions on substituted conditions
EvaluateConditions(jc, c) ==
    CASE c.kind = "nil" -> TRUE
      [] c.kind = "const" -> c.value = "true"
      [] c.kind = "cmp" -> jc.raw[c.key] = c.value
      [] OTHER -> FALSE

\* checkPreconditions: substitute (a variable that is not found becomes
\* empty and is no error), transform, evaluate
checkPreconditions(jc, anyAllConditions) ==
    IF TransformConditions(anyAllConditions).err
    THEN [passed |-> FALSE, err |-> TRUE]
    ELSE [passed |-> EvaluateConditions(jc, anyAllConditions), err |-> FALSE]

\* validate.MatchPattern of a document against a substituted pattern table
MatchPattern(obj, on) == on[obj]

\* LoadContext: the entries are loaded in order, each after a check of the
\* cancellation token; a loaded entry is bound in the JSON context
RECURSIVE LoadContextFrom(_, _, _, _)
LoadContextFrom(ctx, entries, k, jc) ==
    IF k > Len(entries) THEN [err |-> Null, jc |-> jc]
    ELSE IF ctx.cancelled THEN [err |-> "context cancelled", jc |-> jc]
    ELSE IF entries[k].fail THEN [err |-> "load failed", jc |-> jc]
    ELSE LoadContextFrom(ctx, entries, k + 1, AddVariable(jc, entries[k].name, entries[k].value))

LoadContext(ctx, entries, jc) == LoadContextFrom(ctx, entries, 1, jc)

(***************************************************************************)
(* The rule validator.  Every operation takes the evaluation state         *)
(* st = [jc, log]: the JSON context shared by all copies of the policy     *)
(* context, and the steps executed so far; it returns the rule response r  *)
(* (NilResponse for nil) and the state after it.                           *)
(***************************************************************************)
Step(st, e) == [st EXCEPT !.log = Append(@, e)]

\* isEmptyUnstructured
isEmptyUnstructured(u) == u.Object = Null

\* isDeleteRequest: the new resource is empty
isDeleteRequest(policyContext) == isEmptyUnstructured(policyContext.newResource)

\* newValidator copies the rule's fields; nesting is 0
newValidator(policyContext, rule) ==
    [rule |-> rule,
     policyContext |-> policyContext,
     contextEntries |-> rule.context,
     anyAllConditions |-> rule.anyAllConditions,
     pattern |-> rule.pattern,
     anyPattern |-> rule.anyPattern,
     deny |-> rule.deny,
     podSecurity |-> rule.podSecurity,
     forEach |-> rule.forEach,
     nesting |-> 0]

\* newForEachValidator: the validator of one foreach block, or an error
\* when the block's conditions or its nested foreach do not convert
newForEachValidator(foreach, nesting, rule, policyContext) ==
    IF foreach.convErr # Null
    THEN [err |-> TRUE, v |-> newValidator(policyContext, rule)]
    ELSE [err |-> FALSE,
          v |-> [rule |-> rule,
                 policyContext |-> policyContext,
                 contextEntries |-> foreach.context,
                 anyAllConditions |-> foreach.anyAllConditions,
                 pattern |-> foreach.pattern,
                 anyPattern |-> foreach.anyPattern,
                 deny |-> foreach.deny,
                 podSecurity |-> NoPodSecurity,
                 forEach |-> foreach.forEach,
                 nesting |-> nesting]]

\* addElementToContext without the check that an element scoped by the
\* user is a map
addElementToContextUnchecked(policyContext, jc, element, index, nesting, elementScope) ==
    LET jc1 == AddElement(jc, element, index, nesting)
        ok == element \in Objs
        scoped == IF elementScope = "nil" THEN ok ELSE elementScope = "true"
    IN  [err |-> FALSE, jc |-> jc1,
         policyContext |-> IF scoped
                           THEN [policyContext EXCEPT !.element = [Object |-> IF ok THEN element ELSE Null]]
                           ELSE policyContext]

\* addElementToContext binds the element in the JSON context and, when the
\* iteration is element scoped, makes it the element of the policy context
addElementToContext(policyContext, jc, element, index, nesting, elementScope) ==
    LET jc1 == AddElement(jc, element, index, nesting)
        ok == element \in Objs
        scoped == IF elementScope = "nil" THEN ok ELSE elementScope = "true"
    IN  IF elementScope = "true" /\ ~ok
        THEN [err |-> TRUE, jc |-> jc1, policyContext |-> policyContext]
        ELSE [err |-> FALSE, jc |-> jc1,
              policyContext |-> IF scoped
                                THEN [policyContext EXCEPT !.element = [Object |-> IF ok THEN element ELSE Null]]
                                ELSE policyContext]

\* loadContext
loadContext(v, ctx, st) ==
    LET l == LoadContext(ctx, v.contextEntries, st.jc)
    IN  [err |-> l.err, st |-> [jc |-> l.jc, log |-> Append(st.log, Ev("loadContext", v, l.err))]]

\* getDenyMessage
getDenyMessage(v, jc, deny) ==
    IF ~deny THEN Msg("validation rule passed.", Null)
    ELSE IF v.rule.message.text = Null THEN Msg("validation error: rule failed", Null)
    ELSE LET raw == SubstituteAll(jc, v.rule.message.var)
         IN  IF raw.err THEN Msg(v.rule.message.text, v.rule.message.var)
             ELSE Msg(v.rule.message.text, raw.value)

\* validateDeny that evaluates the conditions without the check that they
\* form a condition tree
validateDenyWithoutTransform(v, st) ==
    LET st1 == Step(st, Ev("validateDeny", v, Null))
        c == v.deny.conditions
    IN  IF SubstituteAll(st.jc, c.key).err
        THEN [r |-> ruleError(v.rule, "failed to substitute variables in deny conditions", "not found"),
              st |-> st1]
        ELSE LET deny == EvaluateConditions(st.jc, c)
                 st2 == Step(st1, Ev("EvaluateConditions", v, IF deny THEN "true" ELSE "false"))
             IN  [r |-> ruleResponse(v.rule, getDenyMessage(v, st.jc, deny),
                                     IF deny THEN RuleStatusFail ELSE RuleStatusPass),
                  st |-> st2]

\* validateDeny
validateDeny(v, st) ==
    LET st1 == Step(st, Ev("validateDeny", v, Null))
        c == v.deny.conditions
    IN  IF SubstituteAll(st.jc, c.key).err
        THEN [r |-> ruleError(v.rule, "failed to substitute variables in deny conditions", "not found"),
              st |-> st1]
        ELSE IF TransformConditions(c).err
        THEN [r |-> ruleError(v.rule, "invalid deny conditions", "invalid"), st |-> st1]
        ELSE LET deny == EvaluateConditions(st.jc, c)
                 st2 == Step(st1, Ev("EvaluateConditions", v, IF deny THEN "true" ELSE "false"))
             IN  [r |-> ruleResponse(v.rule, getDenyMessage(v, st.jc, deny),
                                     IF deny THEN RuleStatusFail ELSE RuleStatusPass),
                  st |-> st2]

\* buildErrorMessage that falls back to the message template when it
\* does not render
buildErrorMessageWithTemplate(v, jc, path) ==
    IF v.rule.message.text = Null
    THEN IF path # "" THEN Msg("validation error: rule failed at path", path)
         ELSE Msg("validation error: rule execution error", Null)
    ELSE IF SubstituteAll(jc, v.rule.message.var).err
         THEN Msg(v.rule.message.text, v.rule.message.var)
         ELSE IF path # "" THEN Msg(v.rule.message.text, path)
              ELSE Msg(v.rule.message.text, "execution error")

\* buildErrorMessage
buildErrorMessage(v, jc, path) ==
    IF v.rule.message.text = Null
    THEN IF path # "" THEN Msg("validation error: rule failed at path", path)
         ELSE Msg("validation error: rule execution error", Null)
    ELSE IF SubstituteAll(jc, v.rule.message.var).err
         THEN Msg("validation error: variables substitution error in rule", Null)
         ELSE IF path # "" THEN Msg(v.rule.message.text, path)
              ELSE Msg(v.rule.message.text, "execution error")

RECURSIVE anyPatternLoop(_, _, _, _, _, _)

\* the anyPattern loop that answers Skip as soon as an entry skipped,
\* whether or not another failed
anyPatternLoopSkipWins(v, obj, idx, failed, skipped, st) ==
    IF idx > Len(v.anyPattern.items)
    THEN IF skipped > 0
         THEN [r |-> ruleResponse(v.rule, Msg("skipped", Null), RuleStatusSkip), st |-> st]
         ELSE IF failed > 0
         THEN [r |-> ruleResponse(v.rule, Msg("validation error: anyPattern", Null), RuleStatusFail), st |-> st]
         ELSE [r |-> ruleResponse(v.rule, Msg(v.rule.message.text, Null), RuleStatusPass), st |-> st]
    ELSE LET err == MatchPattern(obj, v.anyPattern.items[idx])
             st1 == Step(st, Ev("MatchPattern", v, IndexStr[idx]))
         IN  IF ~err.err
             THEN [r |-> ruleResponse(v.rule, Msg("validation rule anyPattern passed.", IndexStr[idx]), RuleStatusPass),
                   st |-> st1]
             ELSE IF err.skip
             THEN anyPatternLoop(v, obj, idx + 1, failed, skipped + 1, st1)
             ELSE anyPatternLoop(v, obj, idx + 1, failed + 1, skipped, st1)

\* the anyPattern loop of validatePatterns: the entries from idx on, with
\* the numbers of entries that failed and that skipped so far
anyPatternLoop(v, obj, idx, failed, skipped, st) ==
    IF idx > Len(v.anyPattern.items)
    THEN IF skipped > 0 /\ failed = 0
         THEN [r |-> ruleResponse(v.rule, Msg("skipped", Null), RuleStatusSkip), st |-> st]
         ELSE IF failed > 0
         THEN [r |-> ruleResponse(v.rule, Msg("validation error: anyPattern", Null), RuleStatusFail), st |-> st]
         ELSE [r |-> ruleResponse(v.rule, Msg(v.rule.message.text, Null), RuleStatusPass), st |-> st]
    ELSE LET err == MatchPattern(obj, v.anyPattern.items[idx])
             st1 == Step(st, Ev("MatchPattern", v, IndexStr[idx]))
         IN  IF ~err.err
             THEN [r |-> ruleResponse(v.rule, Msg("validation rule anyPattern passed.", IndexStr[idx]), RuleStatusPass),
                   st |-> st1]
             ELSE IF err.skip
             THEN anyPatternLoop(v, obj, idx + 1, failed, skipped + 1, st1)
             ELSE anyPatternLoop(v, obj, idx + 1, failed + 1, skipped, st1)

\* validatePatterns that looks at the path of a pattern error before its
\* skip flag
validatePatternsPathBeforeSkip(v, obj, st) ==
    IF v.pattern.kind # "nil"
    THEN LET err == MatchPattern(obj, v.pattern.on)
             st1 == Step(st, Ev("MatchPattern", v, Null))
         IN  IF err.err
             THEN IF err.path = ""
                  THEN [r |-> ruleResponse(v.rule, buildErrorMessage(v, st.jc, ""), RuleStatusError), st |-> st1]
                  ELSE IF err.skip
                  THEN [r |-> ruleResponse(v.rule, Msg("pattern error", err.path), RuleStatusSkip), st |-> st1]
                  ELSE [r |-> ruleResponse(v.rule, buildErrorMessage(v, st.jc, err.path), RuleStatusFail), st |-> st1]
             ELSE [r |-> ruleResponse(v.rule, Msg("validation rule passed.", Null), RuleStatusPass), st |-> st1]
    ELSE IF v.anyPattern.kind = "notarray"
    THEN [r |-> ruleResponse(v.rule, Msg("failed to deserialize anyPattern, expected type array", Null), RuleStatusError),
          st |-> st]
    ELSE IF v.anyPattern.kind = "list"
    THEN anyPatternLoop(v, obj, 1, 0, 0, st)
    ELSE [r |-> ruleResponse(v.rule, Msg(v.rule.message.text, Null), RuleStatusPass), st |-> st]

\* validatePatterns validates pattern and anyPattern against one document
validatePatterns(v, obj, st) ==
    IF v.pattern.kind # "nil"
    THEN LET err == MatchPattern(obj, v.pattern.on)
             st1 == Step(st, Ev("MatchPattern", v, Null))
         IN  IF err.err
             THEN IF err.skip
                  THEN [r |-> ruleResponse(v.rule, Msg("pattern error", err.path), RuleStatusSkip), st |-> st1]
                  ELSE IF err.path = ""
                  THEN [r |-> ruleResponse(v.rule, buildErrorMessage(v, st.jc, ""), RuleStatusError), st |-> st1]
                  ELSE [r |-> ruleResponse(v.rule, buildErrorMessage(v, st.jc, err.path), RuleStatusFail), st |-> st1]
             ELSE [r |-> ruleResponse(v.rule, Msg("validation rule passed.", Null), RuleStatusPass), st |-> st1]
    ELSE IF v.anyPattern.kind = "notarray"
    THEN [r |-> ruleResponse(v.rule, Msg("failed to deserialize anyPattern, expected type array", Null), RuleStatusError),
          st |-> st]
    ELSE IF v.anyPattern.kind = "list"
    THEN anyPatternLoop(v, obj, 1, 0, 0, st)
    ELSE [r |-> ruleResponse(v.rule, Msg(v.rule.message.text, Null), RuleStatusPass), st |-> st]

\* validateResourceWithRule that validates the old resource on a delete request
validateResourceWithRuleOnDelete(v, st) ==
    IF ~isEmptyUnstructured(v.policyContext.element)
    THEN validatePatterns(v, v.policyContext.element.Object, st)
    ELSE IF isDeleteRequest(v.policyContext)
    THEN validatePatterns(v, v.policyContext.oldResource.Object, st)
    ELSE validatePatterns(v, v.policyContext.newResource.Object, st)

\* validateResourceWithRule: the element when there is one, else the new
\* resource, and nothing on a delete request
validateResourceWithRule(v, st) ==
    IF ~isEmptyUnstructured(v.policyContext.element)
    THEN validatePatterns(v, v.policyContext.element.Object, st)
    ELSE IF isDeleteRequest(v.policyContext)
    THEN [r |-> NilResponse, st |-> st]
    ELSE validatePatterns(v, v.policyContext.newResource.Object, st)

\* substitutePatterns: the variables of the pattern, else of the anyPattern
substitutePatterns(v, jc) ==
    IF v.pattern.kind # "nil" THEN SubstituteAll(jc, v.pattern.var).err
    ELSE IF v.anyPattern.kind # "nil" THEN SubstituteAll(jc, v.anyPattern.var).err
    ELSE FALSE

\* the kinds getSpec finds a pod spec in
PodSpecKinds == {"DaemonSet", "Deployment", "Job", "StatefulSet", "ReplicaSet",
                 "ReplicationController", "CronJob", "Pod"}

\* the response that stands for a run-time panic of the evaluation
PanicResponse == [name |-> Null, status |-> "panic", message |-> Msg("nil pointer dereference", Null)]

\* validatePodSecurity: getSpec returns no pod spec and no error for
\* another kind, and the pod is then built from nil pointers
validatePodSecurity(v, st) ==
    LET st1 == Step(st, Ev("validatePodSecurity", v, Null))
        newResource == v.policyContext.newResource
    IN  IF newResource.kind \notin PodSpecKinds
        THEN [r |-> PanicResponse, st |-> st1]
        ELSE LET verdict == v.podSecurity.on[newResource.Object]
             IN  IF verdict = "error"
                 THEN [r |-> ruleError(v.rule, "failed to parse pod security api version", "parse"), st |-> st1]
                 ELSE IF verdict = "allowed"
                 THEN [r |-> ruleResponse(v.rule, Msg("Validation rule passed.", Null), RuleStatusPass), st |-> st1]
                 ELSE [r |-> ruleResponse(v.rule, Msg("Validation rule failed. It violates PodSecurity", Null), RuleStatusFail),
                       st |-> st1]

RECURSIVE validate(_, _, _)
RECURSIVE validateForEachFrom(_, _, _, _, _)
RECURSIVE validateElementsFrom(_, _, _, _, _, _, _, _)

\* evaluateList: the elements the list expression of a block yields, or an error
evaluateList(list, jc) == list

\* validateElements with the Restore only on the path that ends the loop
\* normally, not deferred
validateElementsRestoresOnSuccessOnly(v, ctx, foreach, elements, elementScope, st) ==
    LET res == validateElementsFrom(v, ctx, foreach, elements, elementScope, 0, 0,
                                    [st EXCEPT !.jc = Checkpoint(st.jc)])
    IN  IF res.r.status = RuleStatusPass
        THEN [res EXCEPT !.st.jc = Restore(res.st.jc)]
        ELSE res

\* validateElements: checkpoint, iterate, and restore on every return
validateElements(v, ctx, foreach, elements, elementScope, st) ==
    LET res == validateElementsFrom(v, ctx, foreach, elements, elementScope, 0, 0,
                                    [st EXCEPT !.jc = Checkpoint(st.jc)])
    IN  [res EXCEPT !.st.jc = Restore(res.st.jc)]

\* elementDecision that drops a Fail of an element that is not the last
\* one, as it drops an Error
elementDecisionDropsFail(status, index, n) ==
    IF status = "nil" THEN "continue"
    ELSE IF status = RuleStatusSkip THEN "continue"
    ELSE IF status # RuleStatusPass
    THEN IF index < n - 1 THEN "continue" ELSE "return"
    ELSE "apply"

\* elementDecision that returns the Error of any element
elementDecisionReturnsEveryError(status, index, n) ==
    IF status = "nil" THEN "continue"
    ELSE IF status = RuleStatusSkip THEN "continue"
    ELSE IF status # RuleStatusPass THEN "return"
    ELSE "apply"

\* what validateElements does with the response of the element at position
\* index of n elements: go on to the next element, count the element as
\* applied, or return the response
elementDecision(status, index, n) ==
    IF status = "nil" THEN "continue"
    ELSE IF status = RuleStatusSkip THEN "continue"
    ELSE IF status # RuleStatusPass
    THEN IF status = RuleStatusError
         THEN IF index < n - 1 THEN "continue" ELSE "return"
         ELSE "return"
    ELSE "apply"

\* the loop of validateElements without the Reset before each element
validateElementsFromWithoutReset(v, ctx, foreach, elements, elementScope, index, applyCount, st) ==
    IF index >= Len(elements)
    THEN [r |-> ruleResponse(v.rule, Msg("", Null), RuleStatusPass), count |-> applyCount, st |-> st]
    ELSE IF elements[index + 1] = Null
    THEN validateElementsFrom(v, ctx, foreach, elements, elementScope, index + 1, applyCount, st)
    ELSE
      LET jc0 == st.jc
          added == addElementToContext(v.policyContext, jc0, elements[index + 1], index, v.nesting, elementScope)
          st1 == [jc |-> added.jc, log |-> Append(st.log, EvAt("element", v, IndexStr[index + 1], jc0))]
      IN  IF added.err
          THEN [r |-> ruleError(v.rule, "failed to process foreach", "elementScope"),
                count |-> applyCount, st |-> st1]
          ELSE
            LET fv == newForEachValidator(foreach, v.nesting + 1, v.rule, added.policyContext)
            IN  IF fv.err
                THEN [r |-> ruleError(v.rule, "failed to create foreach validator", foreach.convErr),
                      count |-> applyCount, st |-> st1]
                ELSE
                  LET res == validate(fv.v, ctx, st1)
                      st2 == Step(res.st, Ev("validated", v, res.r.status))
                      decision == elementDecision(res.r.status, index, Len(elements))
                  IN  IF res.r.status = "panic"
                      THEN [r |-> res.r, count |-> applyCount, st |-> res.st]
                      ELSE IF decision = "continue"
                      THEN validateElementsFrom(v, ctx, foreach, elements, elementScope,
                                                index + 1, applyCount, st2)
                      ELSE IF decision = "return"
                      THEN [r |-> ruleResponse(v.rule, Msg("validation failure", res.r.message.fmt),
                                               res.r.status),
                            count |-> applyCount, st |-> st2]
                      ELSE validateElementsFrom(v, ctx, foreach, elements, elementScope,
                                                index + 1, applyCount + 1, st2)

\* the loop of validateElements from position index (counted from 0)
validateElementsFrom(v, ctx, foreach, elements, elementScope, index, applyCount, st) ==
    IF index >= Len(elements)
    THEN [r |-> ruleResponse(v.rule, Msg("", Null), RuleStatusPass), count |-> applyCount, st |-> st]
    ELSE IF elements[index + 1] = Null
    THEN validateElementsFrom(v, ctx, foreach, elements, elementScope, index + 1, applyCount, st)
    ELSE
      LET jc0 == Reset(st.jc)
          added == addElementToContext(v.policyContext, jc0, elements[index + 1], index, v.nesting, elementScope)
          st1 == [jc |-> added.jc, log |-> Append(st.log, EvAt("element", v, IndexStr[index + 1], jc0))]
      IN  IF added.err
          THEN [r |-> ruleError(v.rule, "failed to process foreach", "elementScope"),
                count |-> applyCount, st |-> st1]
          ELSE
            LET fv == newForEachValidator(foreach, v.nesting + 1, v.rule, added.policyContext)
            IN  IF fv.err
                THEN [r |-> ruleError(v.rule, "failed to create foreach validator", foreach.convErr),
                      count |-> applyCount, st |-> st1]
                ELSE
                  LET res == validate(fv.v, ctx, st1)
                      st2 == Step(res.st, Ev("validated", v, res.r.status))
                      decision == elementDecision(res.r.status, index, Len(elements))
                  IN  IF res.r.status = "panic"
                      THEN [r |-> res.r, count |-> applyCount, st |-> res.st]
                      ELSE IF decision = "continue"
                      THEN validateElementsFrom(v, ctx, foreach, elements, elementScope,
                                                index + 1, applyCount, st2)
                      ELSE IF decision = "return"
                      THEN [r |-> ruleResponse(v.rule, Msg("validation failure", res.r.message.fmt),
                                               res.r.status),
                            count |-> applyCount, st |-> st2]
                      ELSE validateElementsFrom(v, ctx, foreach, elements, elementScope,
                                                index + 1, applyCount + 1, st2)

\* validateForEach: the blocks in order, summing the applied elements
validateForEach(v, ctx, st) == validateForEachFrom(v, ctx, 1, 0, st)

\* the loop of validateForEach that keeps the count of the last block only
validateForEachFromLastCount(v, ctx, k, applyCount, st) ==
    IF k > Len(v.forEach.blocks)
    THEN IF applyCount = 0
         THEN [r |-> ruleResponse(v.rule, Msg("rule skipped", Null), RuleStatusSkip), st |-> st]
         ELSE [r |-> ruleResponse(v.rule, Msg("rule passed", Null), RuleStatusPass), st |-> st]
    ELSE
      LET foreach == v.forEach.blocks[k]
          l == evaluateList(foreach.list, st.jc)
          st1 == Step(st, EvAt("evaluateList", v, IndexStr[k], st.jc))
      IN  IF l.err
          THEN validateForEachFrom(v, ctx, k + 1, applyCount, st1)
          ELSE LET res == validateElements(v, ctx, foreach, l.elements, foreach.elementScope, st1)
               IN  IF res.r.status # RuleStatusPass
                   THEN [r |-> res.r, st |-> res.st]
                   ELSE validateForEachFrom(v, ctx, k + 1, res.count, res.st)

\* the loop of validateForEach that returns an Error for a list expression
\* that fails to evaluate
validateForEachFromListError(v, ctx, k, applyCount, st) ==
    IF k > Len(v.forEach.blocks)
    THEN IF applyCount = 0
         THEN [r |-> ruleResponse(v.rule, Msg("rule skipped", Null), RuleStatusSkip), st |-> st]
         ELSE [r |-> ruleResponse(v.rule, Msg("rule passed", Null), RuleStatusPass), st |-> st]
    ELSE
      LET foreach == v.forEach.blocks[k]
          l == evaluateList(foreach.list, st.jc)
          st1 == Step(st, EvAt("evaluateList", v, IndexStr[k], st.jc))
      IN  IF l.err
          THEN [r |-> ruleError(v.rule, "failed to evaluate list", "list"), st |-> st1]
          ELSE LET res == validateElements(v, ctx, foreach, l.elements, foreach.elementScope, st1)
               IN  IF res.r.status # RuleStatusPass
                   THEN [r |-> res.r, st |-> res.st]
                   ELSE validateForEachFrom(v, ctx, k + 1, applyCount + res.count, res.st)

\* the loop of validateForEach from block k
validateForEachFrom(v, ctx, k, applyCount, st) ==
    IF k > Len(v.forEach.blocks)
    THEN IF applyCount = 0
         THEN [r |-> ruleResponse(v.rule, Msg("rule skipped", Null), RuleStatusSkip), st |-> st]
         ELSE [r |-> ruleResponse(v.rule, Msg("rule passed", Null), RuleStatusPass), st |-> st]
    ELSE
      LET foreach == v.forEach.blocks[k]
          l == evaluateList(foreach.list, st.jc)
          st1 == Step(st, EvAt("evaluateList", v, IndexStr[k], st.jc))
      IN  IF l.err
          THEN validateForEachFrom(v, ctx, k + 1, applyCount, st1)
          ELSE LET res == validateElements(v, ctx, foreach, l.elements, foreach.elementScope, st1)
               IN  IF res.r.status # RuleStatusPass
                   THEN [r |-> res.r, st |-> res.st]
                   ELSE validateForEachFrom(v, ctx, k + 1, applyCount + res.count, res.st)

\* validate that goes on to the payload when the preconditions are false
validateDespiteFalsePreconditions(v, ctx, st) ==
    LET l == loadContext(v, ctx, st)
    IN  IF l.err # Null
        THEN [r |-> ruleError(v.rule, "failed to load context", l.err), st |-> l.st]
        ELSE
          LET pre == checkPreconditions(l.st.jc, v.anyAllConditions)
              st1 == Step(l.st, Ev("checkPreconditions", v,
                                   IF pre.err THEN "error" ELSE IF pre.passed THEN "true" ELSE "false"))
          IN  IF pre.err
              THEN [r |-> ruleError(v.rule, "failed to evaluate preconditions", "invalid"), st |-> st1]
              ELSE IF ~v.deny.isNil
              THEN validateDeny(v, st1)
              ELSE IF v.pattern.kind # "nil" \/ v.anyPattern.kind # "nil"
              THEN IF substitutePatterns(v, st1.jc)
                   THEN [r |-> ruleError(v.rule, "variable substitution failed", "not found"),
                         st |-> Step(st1, Ev("substitutePatterns", v, Null))]
                   ELSE validateResourceWithRule(v, Step(st1, Ev("substitutePatterns", v, Null)))
              ELSE IF v.podSecurity.kind # "nil" /\ ~isDeleteRequest(v.policyContext)
              THEN validatePodSecurity(v, st1)
              ELSE IF ~v.forEach.isNil
              THEN validateForEach(v, ctx, Step(st1, Ev("validateForEach", v, Null)))
              ELSE [r |-> NilResponse, st |-> st1]

\* validate that looks at the pattern before the deny
validatePatternsBeforeDeny(v, ctx, st) ==
    LET l == loadContext(v, ctx, st)
    IN  IF l.err # Null
        THEN [r |-> ruleError(v.rule, "failed to load context", l.err), st |-> l.st]
        ELSE
          LET pre == checkPreconditions(l.st.jc, v.anyAllConditions)
              st1 == Step(l.st, Ev("checkPreconditions", v,
                                   IF pre.err THEN "error" ELSE IF pre.passed THEN "true" ELSE "false"))
          IN  IF pre.err
              THEN [r |-> ruleError(v.rule, "failed to evaluate preconditions", "invalid"), st |-> st1]
              ELSE IF ~pre.passed
              THEN [r |-> ruleResponse(v.rule, Msg("preconditions not met", Null), RuleStatusSkip),
                    st |-> st1]
              ELSE IF v.pattern.kind # "nil" \/ v.anyPattern.kind # "nil"
              THEN IF substitutePatterns(v, st1.jc)
                   THEN [r |-> ruleError(v.rule, "variable substitution failed", "not found"),
                         st |-> Step(st1, Ev("substitutePatterns", v, Null))]
                   ELSE validateResourceWithRule(v, Step(st1, Ev("substitutePatterns", v, Null)))
              ELSE IF ~v.deny.isNil
              THEN validateDeny(v, st1)
              ELSE IF v.podSecurity.kind # "nil" /\ ~isDeleteRequest(v.policyContext)
              THEN validatePodSecurity(v, st1)
              ELSE IF ~v.forEach.isNil
              THEN validateForEach(v, ctx, Step(st1, Ev("validateForEach", v, Null)))
              ELSE [r |-> NilResponse, st |-> st1]

\* validator.validate: load the context, check the preconditions, dispatch
\* on the payload
validate(v, ctx, st) ==
    LET l == loadContext(v, ctx, st)
    IN  IF l.err # Null
        THEN [r |-> ruleError(v.rule, "failed to load context", l.err), st |-> l.st]
        ELSE
          LET pre == checkPreconditions(l.st.jc, v.anyAllConditions)
              st1 == Step(l.st, Ev("checkPreconditions", v,
                                   IF pre.err THEN "error" ELSE IF pre.passed THEN "true" ELSE "false"))
          IN  IF pre.err
              THEN [r |-> ruleError(v.rule, "failed to evaluate preconditions", "invalid"), st |-> st1]
              ELSE IF ~pre.passed
              THEN [r |-> ruleResponse(v.rule, Msg("preconditions not met", Null), RuleStatusSkip),
                    st |-> st1]
              ELSE IF ~v.deny.isNil
              THEN validateDeny(v, st1)
              ELSE IF v.pattern.kind # "nil" \/ v.anyPattern.kind # "nil"
              THEN IF substitutePatterns(v, st1.jc)
                   THEN [r |-> ruleError(v.rule, "variable substitution failed", "not found"),
                         st |-> Step(st1, Ev("substitutePatterns", v, Null))]
                   ELSE validateResourceWithRule(v, Step(st1, Ev("substitutePatterns", v, Null)))
              ELSE IF v.podSecurity.kind # "nil" /\ ~isDeleteRequest(v.policyContext)
              THEN validatePodSecurity(v, st1)
              ELSE IF ~v.forEach.isNil
              THEN validateForEach(v, ctx, Step(st1, Ev("validateForEach", v, Null)))
              ELSE [r |-> NilResponse, st |-> st1]

\* processValidationRule
processValidationRule(ctx, policyContext, rule, st) ==
    validate(newValidator(policyContext, rule), ctx, st)

(***************************************************************************)
(* The policy driver.                                                      *)
(***************************************************************************)
VARIABLES
    policy,         \* the policy: namespace (Null: cluster wide), applyRules, expanded rules
    newResource,    \* the resource under test; Object = Null: empty
    oldResource,    \* the previous resource; Object = Null: empty
    jsonContext,    \* the JSON context of the policy context
    entryContext,   \* the JSON context as it was when Validate was entered
    cancelled,      \* the ambient cancellation token has been cancelled
    resp,           \* the engine response under construction
    i,              \* position of the driver in the rule list (from 1)
    pc,             \* "idle", "loop", "return", "done"; "panic", "crashed" when the evaluation panics
    log,            \* the evaluation steps executed so far, in order
    returned        \* the responses the earlier calls of Validate returned to the caller, in order

vars == <<policy, newResource, oldResource, jsonContext, entryContext, cancelled, resp, i, pc, log, returned>>

\* an event of the driver itself
DEv(op, rule, arg) == [op |-> op, rule |-> rule.name, nesting |-> 0, arg |-> arg]

\* autogen.ComputeRules: the expanded rule list of the policy
ComputeRules(p) == p.rules

\* Policy.IsNamespaced
IsNamespaced(p) == p.namespace # Null

\* MatchesResourceDescription: nil when the rule's match and exclude blocks
\* accept the resource; an empty resource is accepted by no block
MatchesResourceDescription(resource, rule) ==
    IF resource.Object # Null /\ resource.Object \in rule.match THEN Null ELSE "no match"

\* matches that tries the new resource only
matchesNewResourceOnly(rule, policyContext) ==
    MatchesResourceDescription(policyContext.newResource, rule) = Null

\* matches: the new resource or the old resource satisfies the filter.
\* The guard of the second check compares the method OldResource with an
\* empty struct, which are never equal, so the old resource is always tried.
matches(rule, policyContext) ==
    IF MatchesResourceDescription(policyContext.newResource, rule) = Null THEN TRUE
    ELSE IF MatchesResourceDescription(policyContext.oldResource, rule) = Null THEN TRUE
    ELSE FALSE

\* matched.CheckMatchesResources of an exception's match block
CheckMatchesResources(resource, match) ==
    IF resource.Object # Null /\ resource.Object \in match THEN Null ELSE "no match"

\* the loop of matchesException without the early return: the last
\* candidate that matches wins
RECURSIVE matchesExceptionLast(_, _, _)
matchesExceptionLast(policyContext, candidates, k) ==
    IF k > Len(candidates) THEN 0
    ELSE LET later == matchesExceptionLast(policyContext, candidates, k + 1)
         IN  IF later # 0 THEN later
             ELSE IF CheckMatchesResources(policyContext.newResource, candidates[k].match) = Null THEN k
             ELSE 0

\* the loop of matchesException over the candidates from position k:
\* the position of the first candidate that matches the new resource, or 0
RECURSIVE matchesExceptionFrom(_, _, _)
matchesExceptionFrom(policyContext, candidates, k) ==
    IF k > Len(candidates) THEN 0
    ELSE IF CheckMatchesResources(policyContext.newResource, candidates[k].match) = Null THEN k
    ELSE matchesExceptionFrom(policyContext, candidates, k + 1)

\* matchesException: FindExceptions, then the candidates in order
matchesException(policyContext, rule) ==
    IF rule.findErr THEN [err |-> TRUE, exception |-> 0]
    ELSE [err |-> FALSE, exception |-> matchesExceptionFrom(policyContext, rule.exceptions, 1)]

\* the candidates CheckMatchesResources was called on, as events
ExceptionEvents(rule, m) ==
    IF m.err THEN <<>>
    ELSE [k \in 1..(IF m.exception = 0 THEN Len(rule.exceptions) ELSE m.exception) |->
            DEv("CheckMatchesResources", rule, rule.exceptions[k].key)]

\* hasPolicyExceptions that reports the error of the lookup
hasPolicyExceptionsReportsLookupError(policyContext, rule) ==
    LET m == matchesException(policyContext, rule)
    IN  IF m.err
        THEN ruleError(rule, "failed to find exceptions", "lookup")
        ELSE IF m.exception # 0
        THEN ruleResponse(rule, Msg("rule skipped due to policy exception", rule.exceptions[m.exception].key),
                          RuleStatusSkip)
        ELSE NilResponse

\* hasPolicyExceptions: a Skip response when an exception matches.  The key
\* of a PolicyException is always computable (namespace/name).
hasPolicyExceptions(policyContext, rule) ==
    LET m == matchesException(policyContext, rule)
    IN  IF ~m.err /\ m.exception # 0
        THEN ruleResponse(rule, Msg("rule skipped due to policy exception", rule.exceptions[m.exception].key),
                          RuleStatusSkip)
        ELSE NilResponse

\* processImageValidationRule and processYAMLValidationRule: the verdict
\* of the image or manifest verification, which leaves the context alone
processImageValidationRule(rule, st) ==
    [r |-> IF rule.verdict = "nil" THEN NilResponse
           ELSE ruleResponse(rule, Msg("image verification", Null), rule.verdict),
     st |-> Step(st, DEv("processImageValidationRule", rule, Null))]

processYAMLValidationRule(rule, st) ==
    [r |-> IF rule.verdict = "nil" THEN NilResponse
           ELSE ruleResponse(rule, Msg("manifest verification", Null), rule.verdict),
     st |-> Step(st, DEv("processYAMLValidationRule", rule, Null))]

\* the body of the rule loop of validateResource: the span of one rule
processRule(ctx, policyContext, rule, st) ==
    IF ~rule.hasValidate /\ ~rule.hasValidateImage
    THEN [r |-> NilResponse, st |-> st]
    ELSE
      LET st1 == Step(st, DEv("matches", rule, Null))
      IN  IF ~matches(rule, policyContext)
          THEN [r |-> NilResponse, st |-> st1]
          ELSE
            LET st2 == [st1 EXCEPT !.log = Append(st1.log, DEv("FindExceptions", rule, Null))
                                             \o ExceptionEvents(rule, matchesException(policyContext, rule))]
                ruleResp == hasPolicyExceptions(policyContext, rule)
            IN  IF ruleResp.status # "nil"
                THEN [r |-> ruleResp, st |-> st2]
                ELSE
                  LET st3 == [st2 EXCEPT !.jc = Reset(st2.jc)]
                  IN  IF rule.hasValidate /\ ~rule.hasYAMLSignatureVerify
                      THEN processValidationRule(ctx, policyContext, rule,
                                                 Step(st3, DEv("processValidationRule", rule, Null)))
                      ELSE IF rule.hasValidateImage
                      THEN processImageValidationRule(rule, st3)
                      ELSE IF rule.hasYAMLSignatureVerify
                      THEN processYAMLValidationRule(rule, st3)
                      ELSE [r |-> NilResponse, st |-> st3]

\* incrementAppliedCount / incrementErrorCount
incrementAppliedCount(r) == [r EXCEPT !.rulesAppliedCount = @ + 1]
incrementErrorCount(r) == [r EXCEPT !.rulesErrorCount = @ + 1]

\* addRuleResponse that counts a Pass only as applied
addRuleResponseFailNotCounted(r, ruleResp) ==
    LET counted == IF ruleResp.status = RuleStatusPass
                   THEN incrementAppliedCount(r)
                   ELSE IF ruleResp.status = RuleStatusError
                   THEN incrementErrorCount(r)
                   ELSE r
    IN  [counted EXCEPT !.rules = Append(@, ruleResp)]

\* addRuleResponse that puts the response in front
addRuleResponsePrepends(r, ruleResp) ==
    LET counted == IF ruleResp.status = RuleStatusPass \/ ruleResp.status = RuleStatusFail
                   THEN incrementAppliedCount(r)
                   ELSE IF ruleResp.status = RuleStatusError
                   THEN incrementErrorCount(r)
                   ELSE r
    IN  [counted EXCEPT !.rules = <<ruleResp>> \o @]

\* addRuleResponse: count the response, then append it
addRuleResponse(r, ruleResp) ==
    LET counted == IF ruleResp.status = RuleStatusPass \/ ruleResp.status = RuleStatusFail
                   THEN incrementAppliedCount(r)
                   ELSE IF ruleResp.status = RuleStatusError
                   THEN incrementErrorCount(r)
                   ELSE r
    IN  [counted EXCEPT !.rules = Append(@, ruleResp)]

\* the break taken only once more than one rule has applied
StopAfterSecondApplied(added) == policy.applyRules = ApplyOne /\ added.rulesAppliedCount > 1

\* the break taken on any rule response
StopAfterAnyResponse(added) == policy.applyRules = ApplyOne /\ Len(added.rules) > 0

\* the break taken also once the token is cancelled
StopAfterCancelled(added) ==
    \/ policy.applyRules = ApplyOne /\ added.rulesAppliedCount > 0
    \/ cancelled

\* the break of the rule loop: applyRules is One and a rule has applied
StopAfter(added) == policy.applyRules = ApplyOne /\ added.rulesAppliedCount > 0

\* the empty engine response
EmptyResponse == [rules |-> <<>>, rulesAppliedCount |-> 0, rulesErrorCount |-> 0,
                  patchedResource |-> [Object |-> Null, kind |-> Null, namespace |-> Null]]

\* the policy context handed to the validator: no foreach element yet
PolicyContext == [newResource |-> newResource, oldResource |-> oldResource,
                  element |-> [Object |-> Null]]

\* the namespace check on the new resource alone
OutsidePolicyNamespaceNewOnly ==
    /\ IsNamespaced(policy)
    /\ newResource.Object # Null
    /\ (newResource.namespace # policy.namespace \/ newResource.namespace = "")

\* the namespace check of validateResource for a namespaced policy
OutsidePolicyNamespace ==
    /\ IsNamespaced(policy)
    /\ \/ newResource.Object # Null
          /\ (newResource.namespace # policy.namespace \/ newResource.namespace = "")
       \/ oldResource.Object # Null
          /\ (oldResource.namespace # policy.namespace \/ oldResource.namespace = "")

\* Validate is entered without the Checkpoint of validateResource
ValidateEnterWithoutCheckpoint ==
    /\ pc = "idle"
    /\ entryContext' = jsonContext
    /\ resp' = EmptyResponse
    /\ i' = 1
    /\ pc' = IF OutsidePolicyNamespace THEN "return" ELSE "loop"
    /\ UNCHANGED <<policy, newResource, oldResource, jsonContext, cancelled, log, returned>>

\* Validate is entered: validateResource takes its checkpoint and returns
\* at once for a resource outside the namespace of a namespaced policy
ValidateEnter ==
    /\ pc = "idle"
    /\ entryContext' = jsonContext
    /\ jsonContext' = Checkpoint(jsonContext)
    /\ resp' = EmptyResponse
    /\ i' = 1
    /\ pc' = IF OutsidePolicyNamespace THEN "return" ELSE "loop"
    /\ UNCHANGED <<policy, newResource, oldResource, cancelled, log, returned>>

\* one iteration of the rule loop without the Reset at its start
RuleStepWithoutReset ==
    /\ pc = "loop"
    /\ i <= Len(ComputeRules(policy))
    /\ LET rule == ComputeRules(policy)[i]
           res == processRule([cancelled |-> cancelled], PolicyContext, rule,
                              [jc |-> jsonContext, log |-> log])
           added == addRuleResponse(resp, res.r)
       IN  /\ jsonContext' = res.st.jc
           /\ log' = res.st.log
           /\ IF res.r.status = "panic"
              THEN /\ pc' = "panic"
                   /\ UNCHANGED <<resp, i>>
              ELSE IF res.r.status = "nil"
              THEN /\ i' = i + 1
                   /\ UNCHANGED <<resp, pc>>
              ELSE /\ resp' = added
                   /\ IF StopAfter(added)
                      THEN pc' = "return" /\ i' = i
                      ELSE pc' = pc /\ i' = i + 1
    /\ UNCHANGED <<policy, newResource, oldResource, entryContext, cancelled, returned>>

\* one iteration of the rule loop: reset, evaluate the rule, add its
\* response, and leave the loop when applyRules is One and a rule applied
RuleStep ==
    /\ pc = "loop"
    /\ i <= Len(ComputeRules(policy))
    /\ LET rule == ComputeRules(policy)[i]
           res == processRule([cancelled |-> cancelled], PolicyContext, rule,
                              [jc |-> Reset(jsonContext), log |-> log])
           added == addRuleResponse(resp, res.r)
       IN  /\ jsonContext' = res.st.jc
           /\ log' = res.st.log
           /\ IF res.r.status = "panic"
              THEN /\ pc' = "panic"
                   /\ UNCHANGED <<resp, i>>
              ELSE IF res.r.status = "nil"
              THEN /\ i' = i + 1
                   /\ UNCHANGED <<resp, pc>>
              ELSE /\ resp' = added
                   /\ IF StopAfter(added)
                      THEN pc' = "return" /\ i' = i
                      ELSE pc' = pc /\ i' = i + 1
    /\ UNCHANGED <<policy, newResource, oldResource, entryContext, cancelled, returned>>

\* the rule list is exhausted
LoopExit ==
    /\ pc = "loop"
    /\ i > Len(ComputeRules(policy))
    /\ pc' = "return"
    /\ UNCHANGED <<policy, newResource, oldResource, jsonContext, entryContext, cancelled, resp, i, log, returned>>

\* the return of validateResource without the deferred Restore
ValidateReturnWithoutRestore ==
    /\ pc \in {"return", "panic"}
    /\ resp' = IF pc = "panic" THEN resp
               ELSE [resp EXCEPT !.patchedResource =
                        IF newResource.Object = Null THEN oldResource ELSE newResource]
    /\ pc' = IF pc = "panic" THEN "crashed" ELSE "done"
    /\ UNCHANGED <<policy, newResource, oldResource, jsonContext, entryContext, cancelled, i, log, returned>>

\* validateResource returns: the deferred Restore runs (also when the
\* evaluation panics), and Validate's deferred buildResponse fills in the
\* resource under test
ValidateReturn ==
    /\ pc \in {"return", "panic"}
    /\ jsonContext' = Restore(jsonContext)
    /\ resp' = IF pc = "panic" THEN resp
               ELSE [resp EXCEPT !.patchedResource =
                        IF newResource.Object = Null THEN oldResource ELSE newResource]
    /\ pc' = IF pc = "panic" THEN "crashed" ELSE "done"
    /\ UNCHANGED <<policy, newResource, oldResource, entryContext, cancelled, i, log, returned>>

\* the caller cancels the ambient token while rules are still to be evaluated
Cancel ==
    /\ pc = "loop"
    /\ i <= Len(ComputeRules(policy))
    /\ ~cancelled
    /\ cancelled' = TRUE
    /\ UNCHANGED <<policy, newResource, oldResource, jsonContext, entryContext, resp, i, pc, log, returned>>

Next == ValidateEnter \/ RuleStep \/ LoopExit \/ ValidateReturn \/ Cancel

\* the caller keeps the response Validate returned and calls Validate again
\* with the same policy, the same resources, the same ambient token and
\* the same JSON context object, as the previous call left it
ValidateAgain ==
    /\ pc = "done"
    /\ Len(returned) + 1 < MaxCalls
    /\ returned' = Append(returned, resp)
    /\ pc' = "idle"
    /\ UNCHANGED <<policy, newResource, oldResource, jsonContext, entryContext, cancelled, resp, i, log>>

NextTwice == Next \/ ValidateAgain

(***************************************************************************)
(* The generate filter.                                                    *)
(***************************************************************************)
\* the ExcludeResource predicate of the policy context: the resource
\* filters of the configuration, which name a namespace
ExcludeResourceFunc(kind, namespace, name) == namespace = "ns2"

\* filterRule: nil for a rule that does not generate or does not match the
\* resource, Skip for a policy exception, else the outcome of the filter
filterRule(rule, policyContext) ==
    IF ~rule.hasGenerate THEN NilResponse
    ELSE LET ruleResp == hasPolicyExceptions(policyContext, rule)
         IN  IF ruleResp.status # "nil" THEN ruleResp
             ELSE IF ~matches(rule, policyContext) THEN NilResponse
             ELSE IF rule.verdict = "nil" THEN NilResponse
             ELSE ruleResponse(rule, Msg("generate filter", Null), rule.verdict)

\* filterGenerateRules builds the response and returns it at once for an
\* excluded resource
GenerateEnter ==
    /\ pc = "idle"
    /\ resp' = EmptyResponse
    /\ i' = 1
    /\ pc' = IF ExcludeResourceFunc(newResource.kind, newResource.namespace, newResource.Object)
             THEN "done" ELSE "filter"
    /\ UNCHANGED <<policy, newResource, oldResource, jsonContext, entryContext, cancelled, log, returned>>

\* the rule loop that ends at the first Error response
FilterStepStopsAtError ==
    /\ pc = "filter"
    /\ i <= Len(ComputeRules(policy))
    /\ LET rule == ComputeRules(policy)[i]
           ruleResp == filterRule(rule, PolicyContext)
       IN  /\ resp' = IF ruleResp.status # "nil" THEN [resp EXCEPT !.rules = Append(@, ruleResp)] ELSE resp
           /\ pc' = IF ruleResp.status = RuleStatusError THEN "done" ELSE pc
           /\ log' = Append(log, DEv("filterRule", rule, Null))
    /\ i' = i + 1
    /\ UNCHANGED <<policy, newResource, oldResource, jsonContext, entryContext, cancelled, returned>>

\* one iteration of the rule loop of filterGenerateRules: the result of
\* filterRule is appended unless it is nil
FilterStep ==
    /\ pc = "filter"
    /\ i <= Len(ComputeRules(policy))
    /\ LET rule == ComputeRules(policy)[i]
           ruleResp == filterRule(rule, PolicyContext)
       IN  /\ resp' = IF ruleResp.status # "nil" THEN [resp EXCEPT !.rules = Append(@, ruleResp)] ELSE resp
           /\ log' = Append(log, DEv("filterRule", rule, Null))
    /\ i' = i + 1
    /\ UNCHANGED <<policy, newResource, oldResource, jsonContext, entryContext, cancelled, pc, returned>>

\* the rule list is exhausted: filterGenerateRules returns the response
GenerateReturn ==
    /\ pc = "filter"
    /\ i > Len(ComputeRules(policy))
    /\ pc' = "done"
    /\ UNCHANGED <<policy, newResource, oldResource, jsonContext, entryContext, cancelled, resp, i, log, returned>>

NextGenerate == GenerateEnter \/ FilterStep \/ GenerateReturn

(***************************************************************************)
(* The inputs of Validate.                                                 *)
(***************************************************************************)
Namespaces == {"ns1", "ns2"}

\* a resource, and the empty resource
Resource(obj, kind, ns) == [Object |-> obj, kind |-> kind, namespace |-> ns]
EmptyResource == Resource(Null, Null, Null)

\* create, delete and update requests on pods; an update changes the
\* document and keeps the namespace
Requests ==
    {[new |-> Resource(o, "Pod", ns), old |-> EmptyResource] : o \in Objs, ns \in Namespaces}
    \cup {[new |-> EmptyResource, old |-> Resource(o, "Pod", ns)] : o \in Objs, ns \in Namespaces}
    \cup {[new |-> Resource(op[1], "Pod", ns), old |-> Resource(op[2], "Pod", ns)] :
            op \in {x \in Objs \X Objs : x[1] # x[2]}, ns \in Namespaces}

\* the JSON context handed to Validate: it holds a binding and a
\* checkpoint of the caller
EntryContexts ==
    {[raw |-> [EmptyBindings EXCEPT !["y"] = "s1"], checkpoints |-> <<EmptyBindings>>]}

\* a validation rule that matches every document and has no payload
BaseRule(n) ==
    [name |-> n, hasValidate |-> TRUE, hasValidateImage |-> FALSE, hasYAMLSignatureVerify |-> FALSE,
     hasGenerate |-> FALSE,
     match |-> Objs, exceptions |-> <<>>, findErr |-> FALSE,
     context |-> <<>>, anyAllConditions |-> NoConditions,
     pattern |-> NoPattern, anyPattern |-> NoAnyPattern, deny |-> NoDeny,
     podSecurity |-> NoPodSecurity, forEach |-> NoForEach,
     message |-> NoMessage, verdict |-> "nil"]

\* a foreach block over the given elements with no payload
BaseForEach(elements) ==
    [list |-> [err |-> FALSE, elements |-> elements], elementScope |-> "nil", convErr |-> Null,
     context |-> <<>>, anyAllConditions |-> NoConditions,
     pattern |-> NoPattern, anyPattern |-> NoAnyPattern, deny |-> NoDeny, forEach |-> NoForEach]

\* a context entry
Entry(name, value, fail) == [name |-> name, value |-> value, fail |-> fail]

\* a policy exception
Exception(key, match) == [key |-> key, match |-> match]

\* the pattern that "o1" matches and "o2" fails at a path
OnlyO1 == [o \in Objs |-> IF o = "o1" THEN MatchOK ELSE PatternError("/p", FALSE)]

\* the rules of the driver's policies: one rule per way a rule can end
DriverRules(n) ==
    { \* a pattern rule for "o1" documents: Pass, or nothing on a delete
      [BaseRule(n) EXCEPT !.match = {"o1"}, !.pattern = Pattern(Null, OnlyO1)],
      \* no validation rule at all
      [BaseRule(n) EXCEPT !.hasValidate = FALSE],
      \* a deny rule with an exception for "o2" documents: Fail, or Skip by the exception
      [BaseRule(n) EXCEPT !.deny = Deny(ConstCondition(TRUE)),
                          !.exceptions = <<Exception("ns1/e1", {"o2"})>>],
      \* two exceptions, the second accepting every document, and a pattern
      [BaseRule(n) EXCEPT !.pattern = Pattern(Null, OnlyO1),
                          !.exceptions = <<Exception("ns1/e1", {"o2"}), Exception("ns1/e2", Objs)>>],
      \* a context entry that loads and one that fails to load: Error
      [BaseRule(n) EXCEPT !.context = <<Entry("x", "o1", FALSE), Entry("y", "o2", TRUE)>>,
                          !.deny = Deny(ConstCondition(FALSE))],
      \* a foreach over elements that all pass
      [BaseRule(n) EXCEPT !.forEach = ForEachList(<<
           [BaseForEach([k \in 1..MaxElements |-> "o1"]) EXCEPT !.pattern = Pattern(Null, OnlyO1)]>>)],
      \* image verification with a warning
      [BaseRule(n) EXCEPT !.hasValidate = FALSE, !.hasValidateImage = TRUE, !.verdict = RuleStatusWarn] }

\* the rule lists of length n whose k-th rule is named RuleNames[k]
RuleLists(n) ==
    {rs \in [1..n -> UNION {DriverRules(RuleNames[k]) : k \in 1..n}] :
        \A k \in 1..n : rs[k].name = RuleNames[k]}

Policies ==
    {[namespace |-> ns, applyRules |-> a, rules |-> rs] :
        ns \in {Null, "ns1"}, a \in {ApplyOne, ApplyAll},
        rs \in UNION {RuleLists(n) : n \in 1..MaxRules}}

InitWith(policies, requests) ==
    /\ policy \in policies
    /\ \E q \in requests : newResource = q.new /\ oldResource = q.old
    /\ jsonContext \in EntryContexts
    /\ entryContext = jsonContext
    /\ cancelled = FALSE
    /\ resp = EmptyResponse
    /\ i = 1
    /\ pc = "idle"
    /\ log = <<>>
    /\ returned = <<>>

Init == InitWith(Policies, Requests)

Spec == Init /\ [][Next]_vars

(***************************************************************************)
(* The inputs of the second specification: policies of a single rule,      *)
(* drawn from a wide range of foreach rules.                               *)
(***************************************************************************)
\* the elements a list expression yields: null, maps and a scalar
Elements == {Null} \cup Objs \cup Scalars

\* the element lists of at most n elements over the elements E
ElementLists(E, n) == UNION {[1..m -> E] : m \in 0..n}

\* the pattern that skips on "o1" and errs without a path on "o2"
SkipOrError == [o \in Objs |-> IF o = "o1" THEN PatternError("", TRUE) ELSE PatternError("", FALSE)]

\* the pattern that "o1" matches and that errs without a path on "o2"
PassOrError == [o \in Objs |-> IF o = "o1" THEN MatchOK ELSE PatternError("", FALSE)]

\* the payloads of a foreach block: a deny on the element (true for "o2"),
\* a pattern that passes or fails, a pattern that skips or errs, a
\* pattern that passes or errs, nothing
WithPayload(b, p) ==
    CASE p = "deny" -> [b EXCEPT !.deny = Deny(CmpCondition("element", "o2"))]
      [] p = "pattern" -> [b EXCEPT !.pattern = Pattern(Null, OnlyO1)]
      [] p = "skiperr" -> [b EXCEPT !.pattern = Pattern(Null, SkipOrError)]
      [] p = "passerr" -> [b EXCEPT !.pattern = Pattern(Null, PassOrError)]
      [] OTHER -> b

\* a block whose list expression fails to evaluate
FailingListBlock == [BaseForEach(<<>>) EXCEPT !.list = [err |-> TRUE, elements |-> <<>>]]

\* blocks without a nested foreach
LeafBlocks ==
    {WithPayload([BaseForEach(l) EXCEPT !.elementScope = sc], p) :
        l \in ElementLists(Elements, MaxElements),
        sc \in {"nil", "true", "false"},
        p \in {"deny", "pattern", "skiperr", "passerr", "none"}}
    \cup {[BaseForEach(l) EXCEPT !.convErr = c, !.deny = Deny(ConstCondition(FALSE))] :
        l \in ElementLists(Elements, MaxElements), c \in {"conditions", "foreach"}}
    \cup {FailingListBlock}

\* the blocks nested in another block
InnerBlocks ==
    {WithPayload(BaseForEach(l), p) : l \in ElementLists(Objs, MaxElements), p \in {"deny", "skiperr"}}
    \cup {[BaseForEach(<<"o1">>) EXCEPT !.convErr = "conditions"],
          [BaseForEach(<<"s1">>) EXCEPT !.elementScope = "true"]}

\* blocks with a nested foreach
NestingBlocks ==
    {[BaseForEach(l) EXCEPT !.forEach = ForEachList(<<b>>)] :
        l \in ElementLists(Elements, MaxElements), b \in InnerBlocks}

\* the second block of a rule with two blocks
SecondBlocks ==
    {WithPayload(BaseForEach(<<"o1">>), "deny"), WithPayload(BaseForEach(<<"o2">>), "deny"),
     BaseForEach(<<>>), FailingListBlock}

\* the first block of a rule with two blocks
FirstBlocks ==
    {WithPayload(BaseForEach(l), p) : l \in ElementLists(Elements, MaxElements), p \in {"deny", "skiperr"}}
    \cup {FailingListBlock}

ForEachRules(n) ==
    {[BaseRule(n) EXCEPT !.forEach = ForEachList(<<b>>)] : b \in LeafBlocks \cup NestingBlocks}
    \cup {[BaseRule(n) EXCEPT !.forEach = ForEachList(<<b, c>>)] : b \in FirstBlocks, c \in SecondBlocks}
    \cup {[BaseRule(n) EXCEPT !.forEach = ForEachList(<<>>)]}

RulePolicies ==
    {[namespace |-> Null, applyRules |-> a, rules |-> <<r>>] :
        a \in {ApplyOne, ApplyAll}, r \in ForEachRules(RuleNames[1])}

\* a create of each document, a delete and an update
RuleRequests ==
    {[new |-> Resource(o, "Pod", "ns1"), old |-> EmptyResource] : o \in Objs}
    \cup {[new |-> EmptyResource, old |-> Resource("o1", "Pod", "ns1")],
          [new |-> Resource("o2", "Pod", "ns1"), old |-> Resource("o1", "Pod", "ns1")]}

InitRule == InitWith(RulePolicies, RuleRequests)

SpecRule == InitRule /\ [][Next]_vars

(***************************************************************************)
(* The inputs of the third specification: policies of a single rule, drawn *)
(* from every combination of context, preconditions, payload and message,  *)
(* and a few policies of two rules.                                        *)
(***************************************************************************)
\* the pattern with the same verdict on every document
ConstTable(verdict) == [o \in Objs |-> verdict]

\* the patterns of the payload rules
PatternTables == {ConstTable(verdict) : verdict \in Verdicts} \cup {OnlyO1}

\* the entries of the anyPattern lists: one that matches, one that skips,
\* one that fails, and one that matches "o1" only
AnyPatternTables ==
    {ConstTable(MatchOK), ConstTable(PatternError("", TRUE)), ConstTable(PatternError("/p", FALSE)), OnlyO1}

AnyPatternLists == UNION {[1..m -> AnyPatternTables] : m \in 0..MaxAnyPatterns}

\* the context of a rule: nothing, an entry that binds x, and an entry
\* that binds x followed by one that fails to load
Contexts == {<<>>, <<Entry("x", "o1", FALSE)>>, <<Entry("x", "o1", FALSE), Entry("y", "o2", TRUE)>>}

\* the preconditions of a rule: true exactly when x was loaded, false,
\* absent, or not a condition tree
Preconditions == {NoConditions, ConstCondition(FALSE), CmpCondition("x", "o1"), InvalidConditions}

\* the message templates: none, plain text, and text that mentions x
Messages == {NoMessage, [text |-> "m", var |-> Null], [text |-> "m {{x}}", var |-> "x"]}

\* the verdicts of the pod security evaluator, the same on every document
PodSecurityTables == {[o \in Objs |-> verdict] : verdict \in {"allowed", "denied", "error"}}

\* a block whose elements each load x and pass
ContextBlock ==
    [BaseForEach(<<"o1", "o2">>) EXCEPT !.context = <<Entry("x", "o1", FALSE)>>,
                                        !.deny = Deny(CmpCondition("x", "o2"))]

\* a block whose elements each load x and run a nested block whose elements
\* each load y
NestedContextBlock ==
    [BaseForEach(<<"o1", "o2">>) EXCEPT
        !.context = <<Entry("x", "o1", FALSE)>>,
        !.forEach = ForEachList(<<[BaseForEach(<<"o2", "o1">>) EXCEPT
                                      !.context = <<Entry("y", "o2", FALSE)>>,
                                      !.deny = Deny(ConstCondition(FALSE))]>>)]

\* the foreach blocks of the payload rules: a deny on the element, a
\* context entry that fails to load, preconditions on the element, context
\* entries that load
PayloadBlocks ==
    {ContextBlock, NestedContextBlock,
     WithPayload(BaseForEach(<<"o1", "o2">>), "deny"),
     [BaseForEach(<<"o1", "o2">>) EXCEPT !.context = <<Entry("y", "o2", TRUE)>>,
                                         !.deny = Deny(ConstCondition(FALSE))],
     [BaseForEach(<<"o2", "o1">>) EXCEPT !.anyAllConditions = CmpCondition("element", "o1"),
                                         !.deny = Deny(ConstCondition(FALSE))]}

\* block lists with a block whose list expression fails to evaluate: alone,
\* twice, before and after a block that applies, before a block that fails
FailingLists ==
    {<<FailingListBlock>>, <<FailingListBlock, FailingListBlock>>,
     <<FailingListBlock, ContextBlock>>, <<ContextBlock, FailingListBlock>>,
     <<FailingListBlock, WithPayload(BaseForEach(<<"o1", "o2">>), "deny")>>}

\* a rule body without a payload
NoPayload == [pattern |-> NoPattern, anyPattern |-> NoAnyPattern, deny |-> NoDeny,
              podSecurity |-> NoPodSecurity, forEach |-> NoForEach]

\* the rule bodies with two or more payloads: every such choice among a
\* deny, a pattern, a podSecurity and a foreach
MixedPayloads ==
    {[pattern |-> IF "pattern" \in S THEN Pattern(Null, OnlyO1) ELSE NoPattern,
      anyPattern |-> NoAnyPattern,
      deny |-> IF "deny" \in S THEN Deny(ConstCondition(TRUE)) ELSE NoDeny,
      podSecurity |-> IF "podSecurity" \in S THEN PodSecurity([o \in Objs |-> "allowed"]) ELSE NoPodSecurity,
      forEach |-> IF "forEach" \in S
                  THEN ForEachList(<<WithPayload(BaseForEach(<<"o1", "o2">>), "deny")>>) ELSE NoForEach] :
        S \in {T \in SUBSET {"deny", "pattern", "podSecurity", "forEach"} : Cardinality(T) >= 2}}

\* the payloads: one of deny, pattern, anyPattern, podSecurity and foreach,
\* none, or several
Payloads ==
    MixedPayloads \cup
    {[NoPayload EXCEPT !.deny = Deny(c)] :
        c \in {ConstCondition(TRUE), ConstCondition(FALSE), CmpCondition("x", "o1"),
               CmpCondition("y", "o1"), InvalidConditions}}
    \cup {[NoPayload EXCEPT !.pattern = Pattern(var, t)] : var \in {Null, "x"}, t \in PatternTables}
    \cup {[NoPayload EXCEPT !.anyPattern = AnyPattern(var, l)] : var \in {Null, "x"}, l \in AnyPatternLists}
    \cup {[NoPayload EXCEPT !.anyPattern = NotArrayAnyPattern]}
    \cup {[NoPayload EXCEPT !.podSecurity = PodSecurity(t)] : t \in PodSecurityTables}
    \cup {[NoPayload EXCEPT !.forEach = ForEachList(<<b>>)] : b \in PayloadBlocks}
    \cup {[NoPayload EXCEPT !.forEach = ForEachList(<<ContextBlock, NestedContextBlock>>)]}
    \cup {[NoPayload EXCEPT !.forEach = ForEachList(l)] : l \in FailingLists}
    \cup {NoPayload}

\* the rule named n with the given context, preconditions, payload and message
PayloadRule(n, context, conditions, payload, message) ==
    [BaseRule(n) EXCEPT !.context = context, !.anyAllConditions = conditions,
                        !.pattern = payload.pattern, !.anyPattern = payload.anyPattern,
                        !.deny = payload.deny, !.podSecurity = payload.podSecurity,
                        !.forEach = payload.forEach, !.message = message]

PayloadRules(n) ==
    {PayloadRule(n, context, conditions, payload, message) :
        context \in Contexts, conditions \in Preconditions, payload \in Payloads, message \in Messages}

\* a pattern rule followed by a deny rule
PatternThenDeny ==
    {<<PayloadRule(RuleNames[1], <<>>, NoConditions, [NoPayload EXCEPT !.pattern = Pattern(Null, t)], NoMessage),
       PayloadRule(RuleNames[2], <<>>, NoConditions, [NoPayload EXCEPT !.deny = Deny(c)], NoMessage)>> :
        t \in PatternTables, c \in {ConstCondition(TRUE), ConstCondition(FALSE)}}

\* rules with a policy exception that accepts every document, whose lookup
\* succeeds or fails
ExceptionRules(n) ==
    {[PayloadRule(n, context, NoConditions, payload, NoMessage) EXCEPT
          !.exceptions = <<Exception("ns1/e1", Objs)>>, !.findErr = findErr] :
        context \in Contexts, findErr \in BOOLEAN,
        payload \in {[NoPayload EXCEPT !.deny = Deny(ConstCondition(TRUE))],
                     [NoPayload EXCEPT !.pattern = Pattern(Null, OnlyO1)],
                     [NoPayload EXCEPT !.forEach = ForEachList(<<ContextBlock>>)]}}

PayloadPolicies ==
    {[namespace |-> Null, applyRules |-> ApplyAll, rules |-> <<r>>] :
        r \in PayloadRules(RuleNames[1]) \cup ExceptionRules(RuleNames[1])}
    \cup {[namespace |-> Null, applyRules |-> ApplyAll, rules |-> rs] : rs \in PatternThenDeny}

\* the requests of the payload rules: those of the foreach rules and the
\* create of a resource of a kind that has no pod spec
PayloadRequests ==
    RuleRequests \cup {[new |-> Resource("o1", "ConfigMap", "ns1"), old |-> EmptyResource]}

InitPayload == InitWith(PayloadPolicies, PayloadRequests)

SpecPayload == InitPayload /\ [][Next]_vars

(***************************************************************************)
(* The inputs of the fourth specification: Validate called several times   *)
(* in a row on policies whose rules read and write the JSON context.       *)
(***************************************************************************)
\* the rules: a deny on x, which the rule does not load; a rule that loads
\* x and denies on it; a deny on y, which the caller bound; a foreach with
\* a deny on the element; a pattern rule for "o2" documents
TwiceRules(n) ==
    {[BaseRule(n) EXCEPT !.deny = Deny(CmpCondition("x", "o1"))],
     [BaseRule(n) EXCEPT !.context = <<Entry("x", "o1", FALSE)>>, !.deny = Deny(CmpCondition("x", "o1"))],
     [BaseRule(n) EXCEPT !.deny = Deny(CmpCondition("y", "s1"))],
     [BaseRule(n) EXCEPT !.forEach = ForEachList(<<
          [BaseForEach(<<"o1", "o2">>) EXCEPT !.deny = Deny(CmpCondition("element", "o2"))]>>)],
     [BaseRule(n) EXCEPT !.match = {"o2"}, !.pattern = Pattern(Null, OnlyO1)]}

TwicePolicies ==
    {[namespace |-> Null, applyRules |-> a, rules |-> rs] :
        a \in {ApplyOne, ApplyAll},
        rs \in UNION {{rs \in [1..n -> UNION {TwiceRules(RuleNames[k]) : k \in 1..n}] :
                          \A k \in 1..n : rs[k].name = RuleNames[k]} : n \in 1..MaxRules}}

InitTwice == InitWith(TwicePolicies, RuleRequests)

SpecTwice == InitTwice /\ [][NextTwice]_vars

(***************************************************************************)
(* The inputs of the generate filter.                                      *)
(***************************************************************************)
\* a generate rule with the given outcome of the filter
GenerateRule(n, verdict) ==
    [BaseRule(n) EXCEPT !.hasValidate = FALSE, !.hasGenerate = TRUE, !.verdict = verdict]

\* the rules of the generate policies: a rule that does not generate, a
\* rule for "o1" documents, a rule with an exception for "o2" documents,
\* and a rule for each outcome of the filter
GenerateRules(n) ==
    {[BaseRule(n) EXCEPT !.hasValidate = FALSE],
     [GenerateRule(n, RuleStatusPass) EXCEPT !.match = {"o1"}],
     [GenerateRule(n, RuleStatusFail) EXCEPT !.exceptions = <<Exception("ns1/e1", {"o2"})>>]}
    \cup {GenerateRule(n, verdict) : verdict \in {RuleStatusPass, RuleStatusFail, RuleStatusError}}

GeneratePolicies ==
    {[namespace |-> Null, applyRules |-> a, rules |-> rs] :
        a \in {ApplyOne, ApplyAll},
        rs \in UNION {{rs \in [1..n -> UNION {GenerateRules(RuleNames[k]) : k \in 1..n}] :
                          \A k \in 1..n : rs[k].name = RuleNames[k]} : n \in 1..MaxRules}}

\* the trigger resources: two in a namespace the configuration does not
\* filter, one in a namespace it does
GenerateRequests ==
    {[new |-> Resource(o, "Pod", "ns1"), old |-> EmptyResource] : o \in Objs}
    \cup {[new |-> Resource("o1", "Pod", "ns2"), old |-> EmptyResource]}

InitGenerate == InitWith(GeneratePolicies, GenerateRequests)

SpecGenerate == InitGenerate /\ [][NextGenerate]_vars

(***************************************************************************)
(* Properties of the driver.                                               *)
(***************************************************************************)
Rules == ComputeRules(policy)

\* the number of rule responses of the response with a status in S
CountStatus(S) == Cardinality({k \in 1..Len(resp.rules) : resp.rules[k].status \in S})

\* the position in the expanded rule list of the rule named n (0: none)
RuleIndex(n) == IF \E j \in 1..Len(Rules) : Rules[j].name = n
                THEN CHOOSE j \in 1..Len(Rules) : Rules[j].name = n
                ELSE 0

\* step op of the rule named n is among the steps l
HasEventIn(l, op, n) == \E k \in 1..Len(l) : l[k].op = op /\ l[k].rule = n

\* some step op of the rule named n has been executed
HasEvent(op, n) == HasEventIn(log, op, n)

\* the filter accepts the new or the old resource, read off the inputs
Accepted(rule) ==
    \/ newResource.Object # Null /\ newResource.Object \in rule.match
    \/ oldResource.Object # Null /\ oldResource.Object \in rule.match

\* C1: in every response, applied is the number of Pass and Fail rule
\* responses and errored the number of Error rule responses; Skip and Warn
\* responses count in neither.
C1_Counters ==
    /\ resp.rulesAppliedCount = CountStatus({RuleStatusPass, RuleStatusFail})
    /\ resp.rulesErrorCount = CountStatus({RuleStatusError})

\* a returned response holding a Warn, an applied and an Error rule response
C1_Witness ==
    /\ pc = "done"
    /\ CountStatus({RuleStatusWarn}) > 0
    /\ resp.rulesAppliedCount > 0
    /\ resp.rulesErrorCount > 0

\* C2: when Validate has returned, the checkpoint stack of the JSON
\* context is as deep as it was on entry, on every return path.
C2_StackDepthPreserved ==
    pc = "done" => Len(jsonContext.checkpoints) = Len(entryContext.checkpoints)

\* Validate returned through the applyRules=One break, after a foreach
\* rule took checkpoints of its own
C2_Witness ==
    /\ pc = "done"
    /\ policy.applyRules = ApplyOne
    /\ i < Len(Rules)
    /\ \E k \in 1..Len(log) : log[k].op = "element"

\* the claim's case: a namespaced policy and a resource of another namespace
C4_Outside ==
    /\ policy.namespace # Null
    /\ \E r \in {newResource, oldResource} : r.Object # Null /\ r.namespace # policy.namespace

\* C4: for a namespaced policy and a resource outside its namespace the
\* response has no rule responses and zero counters, and no rule is
\* evaluated: the rule loop is never entered and no step is executed.
C4_NamespacedPolicySkipsOutsiders ==
    C4_Outside =>
        /\ resp.rules = <<>>
        /\ resp.rulesAppliedCount = 0
        /\ resp.rulesErrorCount = 0
        /\ log = <<>>
        /\ pc # "loop"

\* Validate returned for a delete request outside the policy's namespace
C4_Witness ==
    /\ C4_Outside
    /\ newResource.Object = Null
    /\ pc = "done"

\* C5: the rule responses are a subsequence of the expanded rule list:
\* each names a rule, their rules come in strictly increasing position
\* (so no rule answers twice), and they are no more than the rules.
C5_ResponsesFollowRuleOrder ==
    /\ \A k \in 1..Len(resp.rules) : RuleIndex(resp.rules[k].name) # 0
    /\ \A k \in 1..Len(resp.rules) : \A l \in 1..Len(resp.rules) :
          k < l => RuleIndex(resp.rules[k].name) < RuleIndex(resp.rules[l].name)
    /\ Len(resp.rules) <= Len(Rules)

\* a returned response with two rule responses, the rule between them silent
C5_Witness ==
    /\ pc = "done"
    /\ Len(resp.rules) = 2
    /\ RuleIndex(resp.rules[2].name) > RuleIndex(resp.rules[1].name) + 1

\* C6: with applyRules=One a Pass or Fail rule response is the last one,
\* applied is at most 1, no step of a later rule is executed after it, and
\* the driver leaves the loop early only after such a response (Skip and
\* Error responses do not stop it).
C6_ApplyOneStopsAtFirstApplied ==
    policy.applyRules = ApplyOne =>
        /\ \A k \in 1..Len(resp.rules) :
              resp.rules[k].status \in {RuleStatusPass, RuleStatusFail} =>
                 /\ k = Len(resp.rules)
                 /\ pc # "loop"
                 /\ \A e \in 1..Len(log) : RuleIndex(log[e].rule) <= RuleIndex(resp.rules[k].name)
        /\ resp.rulesAppliedCount <= 1
        /\ (pc \in {"return", "done"} /\ ~C4_Outside /\ resp.rulesAppliedCount = 0) => i > Len(Rules)

\* the driver stopped at a Pass or Fail that followed a Skip or Error
\* response, with a rule left unevaluated
C6_Witness ==
    /\ policy.applyRules = ApplyOne
    /\ pc = "done"
    /\ Len(resp.rules) >= 2
    /\ resp.rules[1].status \in {RuleStatusSkip, RuleStatusError}
    /\ resp.rulesAppliedCount = 1
    /\ i < Len(Rules)

\* the step is an iteration of the rule loop on a validation rule
RuleStepTaken == pc = "loop" /\ log' # log

\* the step appends a rule response with the given status
Appends(status) ==
    /\ Len(resp'.rules) = Len(resp.rules) + 1
    /\ resp'.rules[Len(resp'.rules)].status = status

\* C7 as stated: once a rule has ended in Error, every later rule of the
\* expanded list is still processed, whatever applyRules is.
C7_Original ==
    (pc = "done" /\ \E k \in 1..Len(resp.rules) : resp.rules[k].status = RuleStatusError)
        => i >= Len(Rules)

\* C7 amended: a rule that ends in Error increments errored and the driver
\* goes on to the next rule; the driver leaves the loop only when the list
\* is exhausted or, under applyRules=One, on a Pass or Fail response.
C7_ErrorDoesNotStopTheDriver ==
    [][/\ (pc = "loop" /\ Appends(RuleStatusError)) =>
              /\ pc' = "loop"
              /\ i' = i + 1
              /\ resp'.rulesErrorCount = resp.rulesErrorCount + 1
       /\ (pc = "loop" /\ pc' = "return") =>
              \/ i > Len(Rules)
              \/ /\ policy.applyRules = ApplyOne
                 /\ resp'.rules[Len(resp'.rules)].status \in {RuleStatusPass, RuleStatusFail}]_vars

\* an Error response followed by the response of a later rule, under applyRules=One
C7_Witness ==
    /\ policy.applyRules = ApplyOne
    /\ Len(resp.rules) >= 2
    /\ resp.rules[1].status = RuleStatusError
    /\ resp.rulesErrorCount = 1

\* the rule response of a rule whose context load was cancelled
CancelledResponse(r) == r.status = RuleStatusError /\ r.message.arg = "context cancelled"

C9_FilterGatesTheRule ==
    [][RuleStepTaken =>
         LET rule == Rules[i]
         IN  IF Accepted(rule)
             THEN /\ HasEventIn(log', "FindExceptions", rule.name)
                  /\ \/ Len(resp'.rules) = Len(resp.rules) + 1
                           /\ resp'.rules[Len(resp'.rules)].status = RuleStatusSkip
                           /\ resp'.rules[Len(resp'.rules)].message.fmt = "rule skipped due to policy exception"
                     \/ HasEventIn(log', "processValidationRule", rule.name)
                     \/ HasEventIn(log', "processImageValidationRule", rule.name)
                     \/ HasEventIn(log', "processYAMLValidationRule", rule.name)
             ELSE /\ resp' = resp
                  /\ jsonContext'.checkpoints = jsonContext.checkpoints
                  /\ log' = Append(log, DEv("matches", rule, Null))]_vars

\* a rule accepted for the old resource only has been evaluated
C9_Witness ==
    \E j \in 1..Len(Rules) :
        /\ ~(newResource.Object # Null /\ newResource.Object \in Rules[j].match)
        /\ oldResource.Object # Null /\ oldResource.Object \in Rules[j].match
        /\ HasEvent("FindExceptions", Rules[j].name)
        /\ HasEvent("processValidationRule", Rules[j].name)

\* candidate k is the first whose match block accepts the new resource
FirstException(rule, k) ==
    /\ k \in 1..Len(rule.exceptions)
    /\ newResource.Object # Null
    /\ newResource.Object \in rule.exceptions[k].match
    /\ \A l \in 1..(k - 1) : newResource.Object \notin rule.exceptions[l].match

C3_RuleLeavesNoCheckpoint ==
    pc \in {"loop", "return"} =>
        jsonContext.checkpoints = Append(entryContext.checkpoints, entryContext.raw)

\* a Fail returned from an element of a nested foreach while elements of
\* the outer block were still to come
C3_Witness ==
    /\ pc = "return"
    /\ Len(resp.rules) = 1
    /\ resp.rules[1].status = RuleStatusFail
    /\ \E e \in 1..Len(log) : log[e].op = "element" /\ log[e].nesting = 1
    /\ Cardinality({e \in 1..Len(log) : log[e].op = "element" /\ log[e].nesting = 0})
          < Len(Rules[1].forEach.blocks[1].list.elements)

(***************************************************************************)
(* Properties of the stages of a rule, checked under SpecPayload.          *)
(***************************************************************************)
\* the response of the rule named n (NilResponse: the rule has none)
ResponseOf(n) ==
    IF \E k \in 1..Len(resp.rules) : resp.rules[k].name = n
    THEN resp.rules[CHOOSE k \in 1..Len(resp.rules) : resp.rules[k].name = n]
    ELSE NilResponse

\* the rule step k is a step of
RuleOf(k) == Rules[RuleIndex(log[k].rule)]

\* the bindings a rule's payload sees once all its context entries are
\* loaded: the bindings on entry, overwritten by the entries in order
LoadedBindings(rule) ==
    [n \in Vars |->
        IF \E e \in 1..Len(rule.context) : rule.context[e].name = n
        THEN LET last == CHOOSE e \in 1..Len(rule.context) :
                            /\ rule.context[e].name = n
                            /\ \A f \in (e + 1)..Len(rule.context) : rule.context[f].name # n
             IN  rule.context[last].value
        ELSE entryContext.raw[n]]

\* steps k and k+1 are consecutive steps of one validator
SameValidator(k) ==
    /\ k < Len(log)
    /\ log[k + 1].rule = log[k].rule
    /\ log[k + 1].nesting = log[k].nesting

\* step k is the last step of its validator, which returns the given
\* status: as the rule's response with message fmt when it is the rule's
\* validator, to the enclosing foreach iteration when it is a nested one
EndsWith(k, status, fmt) ==
    /\ k = Len(log) \/ log[k + 1].rule # log[k].rule \/ log[k + 1].nesting < log[k].nesting
    /\ IF log[k].nesting = 0
       THEN /\ ResponseOf(log[k].rule).status = status
            /\ ResponseOf(log[k].rule).message.fmt = fmt
       ELSE /\ k < Len(log)
            /\ log[k + 1] = [op |-> "validated", rule |-> log[k].rule,
                             nesting |-> log[k].nesting - 1, arg |-> status]

\* the steps that open the payload stage
DispatchOps == {"validateDeny", "substitutePatterns", "validatePodSecurity", "validateForEach"}

\* what the preconditions of a rule evaluate to, read off the rule
ExpectedPreconditions(rule) ==
    IF rule.anyAllConditions.kind = "invalid" THEN "error"
    ELSE IF EvaluateConditions([raw |-> LoadedBindings(rule), checkpoints |-> <<>>], rule.anyAllConditions)
    THEN "true" ELSE "false"

\* C11: a validator runs load context, check preconditions, dispatch in
\* that order and each stage gates the next: a failed load ends the
\* validator with Error and nothing else of it runs; after a successful
\* load the preconditions are checked next; a precondition error ends it
\* with Error and false preconditions end it with Skip, the payload not
\* being touched; and a payload is dispatched only right after
\* preconditions that evaluated to true.
C11_StagesGateEachOther ==
    \A k \in 1..Len(log) :
        /\ (log[k].op = "loadContext" /\ log[k].arg # Null) =>
               EndsWith(k, RuleStatusError, "failed to load context")
        /\ (log[k].op = "loadContext" /\ log[k].arg = Null) =>
               SameValidator(k) /\ log[k + 1].op = "checkPreconditions"
        /\ log[k].op = "checkPreconditions" =>
               /\ k > 1 /\ SameValidator(k - 1)
               /\ log[k - 1].op = "loadContext" /\ log[k - 1].arg = Null
               /\ log[k].nesting = 0 => log[k].arg = ExpectedPreconditions(RuleOf(k))
               /\ log[k].arg = "error" => EndsWith(k, RuleStatusError, "failed to evaluate preconditions")
               /\ log[k].arg = "false" => EndsWith(k, RuleStatusSkip, "preconditions not met")
        /\ log[k].op \in DispatchOps =>
               /\ k > 1 /\ SameValidator(k - 1)
               /\ log[k - 1].op = "checkPreconditions" /\ log[k - 1].arg = "true"
        /\ log[k].op \in {"EvaluateConditions", "MatchPattern"} =>
               /\ k > 1 /\ SameValidator(k - 1)
               /\ log[k - 1].op \in {"validateDeny", "substitutePatterns", "MatchPattern"}

\* a deny rule whose context loaded and whose preconditions are false:
\* Skip, and the deny conditions were not evaluated
C11_Witness ==
    /\ pc = "done"
    /\ Len(Rules) = 1
    /\ ~Rules[1].deny.isNil
    /\ Rules[1].context # <<>>
    /\ Len(log) >= 2
    /\ log[Len(log)].op = "checkPreconditions" /\ log[Len(log)].arg = "false"
    /\ resp.rules = <<[name |-> Rules[1].name, status |-> RuleStatusSkip,
                       message |-> Msg("preconditions not met", Null)]>>

\* the validator of the rule named n itself (not a nested one) executed step op
RuleDid(op, n) == \E k \in 1..Len(log) : log[k].op = op /\ log[k].rule = n /\ log[k].nesting = 0

\* a delete request: the new resource is empty, the old one is not
DeleteRequest == newResource.Object = Null /\ oldResource.Object # Null

\* the messages of the Error and Skip responses of the stages before the
\* pattern is matched
EarlierStageMessages == {"failed to load context", "failed to evaluate preconditions",
                         "preconditions not met", "variable substitution failed"}

\* the rule has a pattern or an anyPattern and no deny
PatternRule(rule) == rule.deny.isNil /\ (rule.pattern.kind # "nil" \/ rule.anyPattern.kind # "nil")

\* the deny conditions of the rule can be evaluated: they are a condition
\* tree and the variable they mention is bound
DenyEvaluable(rule) ==
    /\ rule.deny.conditions.kind # "invalid"
    /\ rule.deny.conditions.key # Null => LoadedBindings(rule)[rule.deny.conditions.key] # Null

\* what the deny conditions of the rule evaluate to
DenyValue(rule) ==
    EvaluateConditions([raw |-> LoadedBindings(rule), checkpoints |-> <<>>], rule.deny.conditions)

\* C12: on a delete request a matched rule with a pattern or an anyPattern
\* never has the matcher run and gets no Pass, Fail or Error from it: it
\* has no response at all unless an earlier stage ended it; a matched
\* deny rule that reaches its payload is still evaluated and responds
\* Fail when its conditions are true and Pass when they are false.
C12_DeleteSkipsPatternsNotDeny ==
    DeleteRequest =>
        \A j \in 1..Len(Rules) :
            LET rule == Rules[j]
                r == ResponseOf(rule.name)
            IN  /\ (HasEvent("processValidationRule", rule.name) /\ PatternRule(rule)) =>
                       /\ ~\E k \in 1..Len(log) : log[k].rule = rule.name /\ log[k].op = "MatchPattern"
                       /\ r.status \notin {RuleStatusPass, RuleStatusFail}
                       /\ r.status # "nil" => r.message.fmt \in EarlierStageMessages
                       /\ (RuleDid("substitutePatterns", rule.name)
                              /\ SubstituteAll([raw |-> LoadedBindings(rule), checkpoints |-> <<>>],
                                               IF rule.pattern.kind # "nil" THEN rule.pattern.var
                                               ELSE rule.anyPattern.var).err = FALSE)
                            => r = NilResponse
                /\ (RuleDid("validateDeny", rule.name) /\ DenyEvaluable(rule)) =>
                       /\ RuleDid("EvaluateConditions", rule.name)
                       /\ r.status = IF DenyValue(rule) THEN RuleStatusFail ELSE RuleStatusPass

\* a delete request under a pattern rule followed by a deny rule: the
\* pattern rule reached its payload and has no response, the deny rule failed
C12_Witness ==
    /\ DeleteRequest
    /\ pc = "done"
    /\ Len(Rules) = 2
    /\ PatternRule(Rules[1])
    /\ RuleDid("substitutePatterns", Rules[1].name)
    /\ resp.rules = <<[name |-> Rules[2].name, status |-> RuleStatusFail,
                       message |-> Msg("validation error: rule failed", Null)]>>

(***************************************************************************)
(* Properties of the foreach iteration, checked under SpecRule.  A foreach *)
(* run is the evaluation of the foreach list of one validator: it opens    *)
(* with the validator's "validateForEach" step and holds the "element" and *)
(* "validated" steps of its elements, which carry the validator's nesting. *)
(***************************************************************************)
\* the position in a list that a decimal index stands for (index + 1)
DecOf(str) == CHOOSE n \in 1..Len(IndexStr) : IndexStr[n] = str

\* the last step before step k, of the same rule, with the given op and
\* nesting (0: there is none)
LastBefore(k, op, n) ==
    LET S == {j \in 1..(k - 1) : log[j].op = op /\ log[j].nesting = n /\ log[j].rule = log[k].rule}
    IN  IF S = {} THEN 0 ELSE CHOOSE j \in S : \A j2 \in S : j2 <= j

\* the foreach block an "element" or "validated" step k belongs to: the
\* block of the rule, or the block nested in it, whose list was evaluated last
BlockOf(k) ==
    LET top == RuleOf(k).forEach.blocks[DecOf(log[LastBefore(k, "evaluateList", 0)].arg)]
    IN  IF log[k].nesting = 0 THEN top
        ELSE top.forEach.blocks[DecOf(log[LastBefore(k, "evaluateList", 1)].arg)]

\* the "element" step of the iteration that step k belongs to
ElementStep(k) == IF log[k].op = "element" THEN k ELSE LastBefore(k, "element", log[k].nesting)

\* the position in its list of the element of step k, and the element
ElementPosition(k) == DecOf(log[ElementStep(k)].arg)
ElementAt(k) == BlockOf(k).list.elements[ElementPosition(k)]

\* the element of step k is the last one of its list
IsLastElement(k) == ElementPosition(k) = Len(BlockOf(k).list.elements)

\* the foreach runs: the positions of the "validateForEach" steps
Runs == {f \in 1..Len(log) : log[f].op = "validateForEach"}

\* the position after the last step of run f
RunEnd(f) ==
    LET after == {j \in (f + 1)..Len(log) :
                     \/ log[j].rule # log[f].rule
                     \/ log[j].nesting < log[f].nesting}
    IN  IF after = {} THEN Len(log) + 1 ELSE CHOOSE j \in after : \A j2 \in after : j <= j2

\* the status run f returns: the status of the rule's response, or the
\* status handed to the enclosing iteration
RunResult(f) ==
    IF log[f].nesting = 0 THEN ResponseOf(log[f].rule).status ELSE log[RunEnd(f)].arg

\* the steps of run f that record the result of one of its elements
ElementResults(f) ==
    {j \in (f + 1)..(RunEnd(f) - 1) : log[j].op = "validated" /\ log[j].nesting = log[f].nesting}

\* run f ended on an element that could not be bound or whose validator
\* could not be built
Aborted(f) ==
    /\ RunEnd(f) - 1 > f
    /\ log[RunEnd(f) - 1].op = "element"
    /\ log[RunEnd(f) - 1].nesting = log[f].nesting

\* the element results that end a run: a Fail, or an Error of a last element
Decisive(f) ==
    {j \in ElementResults(f) :
        \/ log[j].arg = RuleStatusFail
        \/ log[j].arg = RuleStatusError /\ IsLastElement(j)}

\* the elements of run f that passed
Applied(f) == {j \in ElementResults(f) : log[j].arg = RuleStatusPass}

\* C13: when the nested evaluation of an element yields Fail, that is the
\* last step of the foreach run: no later element and no later block is
\* evaluated, and the run returns Fail whatever was applied before.
C13_FailEndsTheForEach ==
    \A k \in 1..Len(log) :
        (log[k].op = "validated" /\ log[k].arg = RuleStatusFail) =>
            EndsWith(k, RuleStatusFail, "validation failure")

\* a rule of two blocks whose first block passed on its first element and
\* failed on its second: Fail, the second block never evaluated
C13_Witness ==
    /\ pc = "done"
    /\ Len(Rules[1].forEach.blocks) = 2
    /\ ~Rules[1].forEach.blocks[2].list.err
    /\ \E k \in 2..Len(log) :
          /\ log[k].op = "validated" /\ log[k].arg = RuleStatusFail /\ log[k].nesting = 0
          /\ \E j \in 1..(k - 1) : log[j].op = "validated" /\ log[j].arg = RuleStatusPass /\ log[j].nesting = 0
    /\ ResponseOf(Rules[1].name).status = RuleStatusFail
    /\ ~\E k \in 1..Len(log) : log[k].op = "evaluateList" /\ log[k].arg = IndexStr[2]

\* the next element of the list of step k after the element of step k
\* that is not null (0: there is none)
NextElement(k) ==
    LET elements == BlockOf(k).list.elements
        later == {e \in (ElementPosition(k) + 1)..Len(elements) : elements[e] # Null}
    IN  IF later = {} THEN 0 ELSE CHOOSE e \in later : \A e2 \in later : e <= e2

\* C14: the Error of an element that is not the last of its list is
\* dropped: the iteration goes on with the next element that is not null,
\* and the run returns what it returns when such results are left out, as
\* Skip results are (its Fail or last-element Error if there is one, else
\* Pass or Skip by the elements applied); the Error of the last element
\* of a list ends the run, which returns Error.
C14_OnlyTheLastErrorCounts ==
    /\ \A k \in 1..Len(log) :
          (log[k].op = "validated" /\ log[k].arg = RuleStatusError) =>
              IF IsLastElement(k)
              THEN EndsWith(k, RuleStatusError, "validation failure")
              ELSE NextElement(k) # 0 =>
                      /\ SameValidator(k)
                      /\ log[k + 1].op = "element"
                      /\ log[k + 1].arg = IndexStr[NextElement(k)]
    /\ \A f \in Runs :
          (~Aborted(f) /\ \E k \in ElementResults(f) : log[k].arg = RuleStatusError) =>
              RunResult(f) = IF Decisive(f) # {} THEN log[CHOOSE j \in Decisive(f) : TRUE].arg
                             ELSE IF Applied(f) # {} THEN RuleStatusPass
                             ELSE RuleStatusSkip

\* a rule that passed although an element that was not the last one of
\* its list ended in Error
C14_Witness ==
    /\ pc = "done"
    /\ ResponseOf(Rules[1].name).status = RuleStatusPass
    /\ \E k \in 1..Len(log) :
          /\ log[k].op = "validated" /\ log[k].arg = RuleStatusError /\ log[k].nesting = 0
          /\ ~IsLastElement(k)

\* C15: a foreach run in which no element returned Fail or the Error of
\* a last element, and none failed to bind, returns Skip when no element
\* passed in any block and Pass when at least one did; in particular a
\* rule whose lists are all empty or hold only nulls is skipped.
C15_SkipOrPassByAppliedCount ==
    /\ \A f \in Runs :
          (~Aborted(f) /\ Decisive(f) = {}) =>
              /\ RunResult(f) = IF Applied(f) = {} THEN RuleStatusSkip ELSE RuleStatusPass
              /\ log[f].nesting = 0 =>
                     ResponseOf(log[f].rule).message.fmt = IF Applied(f) = {} THEN "rule skipped" ELSE "rule passed"
    /\ \A j \in 1..Len(Rules) :
          (/\ RuleDid("validateForEach", Rules[j].name)
           /\ \A b \in 1..Len(Rules[j].forEach.blocks) :
                 LET list == Rules[j].forEach.blocks[b].list
                 IN  ~list.err => \A e \in 1..Len(list.elements) : list.elements[e] = Null)
          => ResponseOf(Rules[j].name).status = RuleStatusSkip

\* a rule of two blocks that passed by an element of its first block, the
\* second block having applied to none
C15_Witness ==
    /\ pc = "done"
    /\ Len(Rules[1].forEach.blocks) = 2
    /\ ResponseOf(Rules[1].name).status = RuleStatusPass
    /\ \E k \in 1..Len(log) : log[k].op = "evaluateList" /\ log[k].arg = IndexStr[2] /\ log[k].nesting = 0
    /\ \E f \in Runs : log[f].nesting = 0 /\ Cardinality(Applied(f)) = 1
                        /\ \E k \in ElementResults(f) : log[k].arg = RuleStatusSkip

\* the first element of a list that is not null (0: there is none)
FirstElement(elements) ==
    LET present == {e \in 1..Len(elements) : elements[e] # Null}
    IN  IF present = {} THEN 0 ELSE CHOOSE e \in present : \A e2 \in present : e <= e2

\* C16: in a block with elementScope=true an element that is not a map
\* ends the foreach run with Error at that element, whatever its position
\* in the list: the nested rule body is evaluated neither for it nor for
\* a later element; so a rule whose first block meets such an element
\* first answers Error.
C16_ScopedElementMustBeAMap ==
    /\ \A k \in 1..Len(log) :
          (log[k].op = "element" /\ BlockOf(k).elementScope = "true" /\ ElementAt(k) \notin Objs) =>
              EndsWith(k, RuleStatusError, "failed to process foreach")
    /\ \A j \in 1..Len(Rules) :
          (/\ RuleDid("validateForEach", Rules[j].name)
           /\ Len(Rules[j].forEach.blocks) >= 1
           /\ LET first == Rules[j].forEach.blocks[1]
              IN  /\ ~first.list.err
                  /\ first.elementScope = "true"
                  /\ FirstElement(first.list.elements) # 0
                  /\ first.list.elements[FirstElement(first.list.elements)] \in Scalars)
          => /\ ResponseOf(Rules[j].name).status = RuleStatusError
             /\ ~HasEvent("validated", Rules[j].name)

\* an element that is not a map and not the last of its list ended an
\* element scoped iteration with Error
C16_Witness ==
    /\ pc = "done"
    /\ ResponseOf(Rules[1].name) = [name |-> Rules[1].name, status |-> RuleStatusError,
                                     message |-> Msg("failed to process foreach", "elementScope")]
    /\ log[Len(log)].op = "element"
    /\ log[Len(log)].nesting = 0
    /\ ~IsLastElement(Len(log))
    /\ BlockOf(Len(log)).elementScope = "true"
    /\ ElementAt(Len(log)) \in Scalars

(***************************************************************************)
(* Properties of the payloads, checked under SpecPayload.                  *)
(***************************************************************************)
\* the steps op of the validator of the rule named n itself
RuleSteps(op, n) == {k \in 1..Len(log) : log[k].op = op /\ log[k].rule = n /\ log[k].nesting = 0}

\* the JSON context the payload of a rule is evaluated in
PayloadContext(rule) == [raw |-> LoadedBindings(rule), checkpoints |-> <<>>]

\* the variables of the rule's pattern or anyPattern are all bound
PatternsSubstitute(rule) ==
    ~SubstituteAll(PayloadContext(rule),
                   IF rule.pattern.kind # "nil" THEN rule.pattern.var ELSE rule.anyPattern.var).err

\* the rule status a verdict of the matcher on a single pattern maps to
StatusOfVerdict(verdict) ==
    IF ~verdict.err THEN RuleStatusPass
    ELSE IF verdict.skip THEN RuleStatusSkip
    ELSE IF verdict.path = "" THEN RuleStatusError
    ELSE RuleStatusFail

\* C17: a rule with a single pattern whose pattern stage is reached on a
\* request with a new resource has the matcher run once on that resource,
\* and its status is the matcher's outcome: Pass for no error, Skip for
\* an error with skip=true (whatever the path), Error for an error with
\* skip=false and an empty path, Fail for skip=false and a path.
C17_PatternOutcome ==
    \A j \in 1..Len(Rules) :
        LET rule == Rules[j]
        IN  (/\ rule.deny.isNil /\ rule.pattern.kind # "nil"
             /\ RuleDid("substitutePatterns", rule.name)
             /\ PatternsSubstitute(rule)
             /\ newResource.Object # Null) =>
                /\ Cardinality(RuleSteps("MatchPattern", rule.name)) = 1
                /\ ResponseOf(rule.name).status = StatusOfVerdict(rule.pattern.on[newResource.Object])

\* a rule whose pattern gave an error with skip=true and an empty path: Skip
C17_Witness ==
    /\ pc = "done"
    /\ Len(Rules) = 1
    /\ Rules[1].pattern.kind # "nil"
    /\ newResource.Object # Null
    /\ Rules[1].pattern.on[newResource.Object] = PatternError("", TRUE)
    /\ RuleDid("MatchPattern", Rules[1].name)
    /\ ResponseOf(Rules[1].name).status = RuleStatusSkip

\* the verdict of the matcher on entry k of the rule's anyPattern
EntryVerdict(rule, k) == rule.anyPattern.items[k][newResource.Object]

\* the first entry of the rule's anyPattern that matches (0: none does)
FirstMatch(rule) ==
    LET matching == {k \in 1..Len(rule.anyPattern.items) : ~EntryVerdict(rule, k).err}
    IN  IF matching = {} THEN 0 ELSE CHOOSE k \in matching : \A k2 \in matching : k <= k2

\* the matcher ran on the entries 1..n of the rule's anyPattern, in that
\* order, and on no other
TriedInOrder(rule, n) ==
    LET S == RuleSteps("MatchPattern", rule.name)
    IN  /\ Cardinality(S) = n
        /\ \A k \in 1..n : \E p \in S : log[p].arg = IndexStr[k]
        /\ \A p \in S : \A q \in S : p < q => DecOf(log[p].arg) < DecOf(log[q].arg)

\* C18: a rule with an anyPattern of at least one entry whose pattern
\* stage is reached on a request with a new resource tries the entries in
\* list order; the first entry that matches ends the rule with Pass, the
\* later entries not being tried; when no entry matches, all are tried and
\* the rule is Skip if every entry skipped and Fail if at least one
\* failed, also when others skipped.
C18_AnyPatternOutcome ==
    \A j \in 1..Len(Rules) :
        LET rule == Rules[j]
            n == Len(rule.anyPattern.items)
        IN  (/\ rule.deny.isNil /\ rule.pattern.kind = "nil" /\ rule.anyPattern.kind = "list"
             /\ n >= 1
             /\ RuleDid("substitutePatterns", rule.name)
             /\ PatternsSubstitute(rule)
             /\ newResource.Object # Null) =>
                IF FirstMatch(rule) # 0
                THEN /\ TriedInOrder(rule, FirstMatch(rule))
                     /\ ResponseOf(rule.name).status = RuleStatusPass
                     /\ ResponseOf(rule.name).message =
                            Msg("validation rule anyPattern passed.", IndexStr[FirstMatch(rule)])
                ELSE /\ TriedInOrder(rule, n)
                     /\ ResponseOf(rule.name).status =
                            IF \A k \in 1..n : EntryVerdict(rule, k).skip
                            THEN RuleStatusSkip ELSE RuleStatusFail

\* an anyPattern whose first entry skipped and whose second failed: Fail
C18_Witness ==
    /\ pc = "done"
    /\ Len(Rules) = 1
    /\ Rules[1].anyPattern.kind = "list"
    /\ Len(Rules[1].anyPattern.items) = 2
    /\ newResource.Object # Null
    /\ EntryVerdict(Rules[1], 1).err /\ EntryVerdict(Rules[1], 1).skip
    /\ EntryVerdict(Rules[1], 2).err /\ ~EntryVerdict(Rules[1], 2).skip
    /\ Cardinality(RuleSteps("MatchPattern", Rules[1].name)) = 2
    /\ ResponseOf(Rules[1].name).status = RuleStatusFail

\* the deny conditions of the rule mention a variable that is not bound
DenyUnbound(rule) ==
    /\ rule.deny.conditions.key # Null
    /\ LoadedBindings(rule)[rule.deny.conditions.key] = Null

\* C19: a deny rule whose preconditions pass evaluates its deny
\* conditions: when a variable of the conditions cannot be substituted,
\* or the conditions are not a condition tree, the rule is Error and
\* the conditions are not evaluated; otherwise they are evaluated and
\* the rule is Fail when they are true and Pass when they are false.
C19_DenyOutcome ==
    \A j \in 1..Len(Rules) :
        LET rule == Rules[j]
            r == ResponseOf(rule.name)
        IN  /\ (~rule.deny.isNil
                   /\ \E k \in RuleSteps("checkPreconditions", rule.name) : log[k].arg = "true")
                => RuleDid("validateDeny", rule.name)
            /\ (~rule.deny.isNil /\ RuleDid("validateDeny", rule.name)) =>
                   IF DenyUnbound(rule)
                   THEN /\ r.status = RuleStatusError
                        /\ r.message.fmt = "failed to substitute variables in deny conditions"
                        /\ ~RuleDid("EvaluateConditions", rule.name)
                   ELSE IF rule.deny.conditions.kind = "invalid"
                   THEN /\ r.status = RuleStatusError
                        /\ r.message.fmt = "invalid deny conditions"
                        /\ ~RuleDid("EvaluateConditions", rule.name)
                   ELSE /\ RuleDid("EvaluateConditions", rule.name)
                        /\ r.status = IF DenyValue(rule) THEN RuleStatusFail ELSE RuleStatusPass

\* a deny rule on a variable its context loaded, with preconditions that
\* passed: the conditions are true and the rule is Fail
C19_Witness ==
    /\ pc = "done"
    /\ Len(Rules) = 1
    /\ Rules[1].deny = Deny(CmpCondition("x", "o1"))
    /\ Rules[1].anyAllConditions # NoConditions
    /\ RuleDid("EvaluateConditions", Rules[1].name)
    /\ ResponseOf(Rules[1].name).status = RuleStatusFail

\* the rule has a message template that does not render: it mentions a
\* variable that is not bound
RenderFails(rule) ==
    /\ rule.message.text # Null
    /\ rule.message.var # Null
    /\ LoadedBindings(rule)[rule.message.var] = Null

\* the message template of a rule as it was written, nothing substituted
Template(rule) == Msg(rule.message.text, rule.message.var)

\* the rule is a deny rule whose conditions were evaluated and are true
DeniedRule(rule) ==
    /\ ~rule.deny.isNil
    /\ RuleDid("EvaluateConditions", rule.name)
    /\ DenyValue(rule)

\* the rule is a rule with a single pattern that the new resource does
\* not match (the matcher gave an error that is not a skip)
MismatchedRule(rule) ==
    /\ rule.deny.isNil /\ rule.pattern.kind # "nil"
    /\ RuleDid("MatchPattern", rule.name)
    /\ newResource.Object # Null
    /\ rule.pattern.on[newResource.Object].err
    /\ ~rule.pattern.on[newResource.Object].skip

C21_OtherKindsYieldError ==
    \A j \in 1..Len(Rules) :
        (/\ RuleDid("validatePodSecurity", Rules[j].name)
         /\ ~DeleteRequest
         /\ newResource.kind \notin PodSpecKinds)
        => ResponseOf(Rules[j].name).status = RuleStatusError

\* two responses with the same rule responses (names, statuses, messages,
\* order) and the same counters
SameOutcome(a, b) ==
    /\ a.rules = b.rules
    /\ a.rulesAppliedCount = b.rulesAppliedCount
    /\ a.rulesErrorCount = b.rulesErrorCount

\* C22: Validate called again on the same policy, resources and JSON
\* context, the ambient token not cancelled, returns a response with the
\* rule responses and the counters of the response it returned before.
C22_ValidateIsDeterministic ==
    (pc = "done" /\ ~cancelled) => \A k \in 1..Len(returned) : SameOutcome(returned[k], resp)

\* Validate has returned a second time, and the policy has a rule that loads
\* x after a rule that reads it or before one
C22_Witness ==
    /\ pc = "done"
    /\ ~cancelled
    /\ Len(returned) = 1
    /\ Len(resp.rules) >= 2
    /\ \E j, k \in 1..Len(Rules) :
           j # k /\ Rules[j].context # <<>> /\ Rules[k].context = <<>>
                 /\ Rules[k].deny = Deny(CmpCondition("x", "o1"))

\* the resource under test is excluded by the configuration
Excluded == ExcludeResourceFunc(newResource.kind, newResource.namespace, newResource.Object)

\* the results of filterRule for the first n rules of the policy, in order
FilterResults(n) == [k \in 1..n |-> filterRule(Rules[k], PolicyContext)]

\* a result of filterRule that is not nil
NonNil(r) == r.status # "nil"

\* C23: the generate filter visits the rules of the expanded policy in
\* order, appends exactly the non-nil results of filterRule in that order
\* and returns only once every rule was visited, whatever the statuses; for
\* an excluded resource it visits no rule and reports no rule response.
C23_FilterVisitsEveryRule ==
    /\ Len(log) <= Len(Rules)
    /\ \A k \in 1..Len(log) : log[k].op = "filterRule" /\ log[k].rule = Rules[k].name
    /\ resp.rules = SelectSeq(FilterResults(Len(log)), NonNil)
    /\ (pc = "done" /\ ~Excluded) => Len(log) = Len(Rules)
    /\ Excluded => (log = <<>> /\ resp.rules = <<>>)

\* the filter has returned for a policy of three rules whose first result
\* is an Error, whose second is nil and whose third is a Pass
C23_Witness ==
    /\ pc = "done"
    /\ ~Excluded
    /\ Len(log) = 3
    /\ FilterResults(3)[1].status = RuleStatusError
    /\ FilterResults(3)[2].status = "nil"
    /\ FilterResults(3)[3].status = RuleStatusPass
    /\ Len(resp.rules) = 2

\* C24: a rule with an anyPattern whose pattern stage is reached on a
\* request with a new resource is Pass only if one of its entries matched
\* the resource; when no entry matched, also when the list has no entries,
\* it is Fail, or Skip if every entry skipped.
C24_PassNeedsAMatch ==
    \A j \in 1..Len(Rules) :
        LET rule == Rules[j]
            n == Len(rule.anyPattern.items)
            status == ResponseOf(rule.name).status
        IN  (/\ rule.deny.isNil /\ rule.pattern.kind = "nil" /\ rule.anyPattern.kind = "list"
             /\ RuleDid("substitutePatterns", rule.name)
             /\ PatternsSubstitute(rule)
             /\ newResource.Object # Null) =>
                /\ status = RuleStatusPass => FirstMatch(rule) # 0
                /\ FirstMatch(rule) = 0 =>
                       /\ status \in {RuleStatusFail, RuleStatusSkip}
                       /\ status = RuleStatusSkip => \A k \in 1..n : EntryVerdict(rule, k).skip

\* the step that starts the payload validate chooses for the rule on this
\* request, Null when no payload applies
ChosenPayload(rule) ==
    IF ~rule.deny.isNil THEN "validateDeny"
    ELSE IF rule.pattern.kind # "nil" \/ rule.anyPattern.kind # "nil" THEN "substitutePatterns"
    ELSE IF rule.podSecurity.kind # "nil" /\ ~DeleteRequest THEN "validatePodSecurity"
    ELSE IF ~rule.forEach.isNil THEN "validateForEach"
    ELSE Null

\* the preconditions of the rule's validator were checked and passed
PreconditionsPassed(rule) ==
    \E k \in RuleSteps("checkPreconditions", rule.name) : log[k].arg = "true"

\* C25: a rule whose preconditions pass has at most one payload evaluated,
\* the first present of deny, pattern or anyPattern, podSecurity (not on a
\* delete request) and foreach, and no payload after it; when no payload
\* applies the rule has no rule response and the counters stay as they were.
C25_OnePayloadByPriority ==
    \A j \in 1..Len(Rules) :
        LET rule == Rules[j]
        IN  /\ \A op \in DispatchOps :
                   RuleDid(op, rule.name) <=> (PreconditionsPassed(rule) /\ op = ChosenPayload(rule))
            /\ (PreconditionsPassed(rule) /\ ChosenPayload(rule) = Null) =>
                   /\ ResponseOf(rule.name) = NilResponse
                   /\ Len(Rules) = 1 => (resp.rulesAppliedCount = 0 /\ resp.rulesErrorCount = 0)

\* a rule with a podSecurity and a foreach on a delete request: the
\* foreach is evaluated
C25_Witness ==
    /\ pc = "done"
    /\ DeleteRequest
    /\ Len(Rules) = 1
    /\ Rules[1].deny.isNil /\ Rules[1].pattern.kind = "nil"
    /\ Rules[1].podSecurity.kind # "nil" /\ ~Rules[1].forEach.isNil
    /\ RuleDid("validateForEach", Rules[1].name)
    /\ ~RuleDid("validatePodSecurity", Rules[1].name)
    /\ ResponseOf(Rules[1].name).status # "nil"

\* the "evaluateList" step that opened the block the "element" step k
\* belongs to: the last one of the same nesting before k
BlockEntry(k) == LastBefore(k, "evaluateList", log[k].nesting)

\* the "evaluateList" steps of the blocks of rule n itself
BlockSteps(n) == RuleSteps("evaluateList", n)

\* C26: in a foreach block every element starts from the bindings the
\* block was entered with, so nothing an earlier element bound (element,
\* index, context entries) is visible to it; and once a block has
\* returned the bindings are those it was entered with: the next block of
\* the rule is entered with the same bindings, and so is the rule left.
C26_ElementsStartFromTheCheckpoint ==
    /\ \A k \in 1..Len(log) :
           log[k].op = "element" => log[k].raw = log[BlockEntry(k)].raw
    /\ \A j \in 1..Len(Rules) :
           \A a \in BlockSteps(Rules[j].name) : \A b \in BlockSteps(Rules[j].name) :
               log[a].raw = log[b].raw
    /\ (Len(Rules) = 1 /\ pc \in {"loop", "return"}) =>
           \A a \in BlockSteps(Rules[1].name) : jsonContext.raw = log[a].raw

\* a rule of two blocks was evaluated: the elements of the first loaded x,
\* those of the second ran a nested block whose elements loaded y
C26_Witness ==
    /\ pc = "return"
    /\ Len(Rules) = 1
    /\ Rules[1].forEach = ForEachList(<<ContextBlock, NestedContextBlock>>)
    /\ Cardinality(BlockSteps(Rules[1].name)) = 2
    /\ Cardinality({k \in 1..Len(log) : log[k].op = "element" /\ log[k].nesting = 0}) = 4
    /\ Cardinality({k \in 1..Len(log) : log[k].op = "element" /\ log[k].nesting = 1}) = 4
    /\ ResponseOf(Rules[1].name).status = RuleStatusPass

\* the steps a step of the driver adds to the log
StepEvents == SubSeq(log', Len(log) + 1, Len(log'))

\* the step invokes the validator, the image or the manifest verification
ReachesValidation ==
    \E e \in 1..Len(StepEvents) :
        StepEvents[e].op \in {"processValidationRule", "processImageValidationRule",
                              "processYAMLValidationRule"}

\* the status of a deny rule without preconditions evaluated on the
\* bindings at entry of Validate and its own context entries
DenyStatusAtEntry(rule) ==
    IF ~DenyEvaluable(rule) THEN RuleStatusError
    ELSE IF DenyValue(rule) THEN RuleStatusFail
    ELSE RuleStatusPass

\* C27: every rule of Validate is evaluated from the bindings at entry of
\* Validate: a rule that ends before its validator runs leaves the context
\* with exactly those bindings, whatever the earlier rules bound; a deny
\* rule whose context loads gets the status its conditions have on those
\* bindings and its own context entries; and when Validate returns the
\* bindings are those at entry.
C27_RulesStartFromEntryBindings ==
    [][/\ (pc = "loop" /\ i <= Len(Rules) /\ cancelled' = cancelled) =>
            LET rule == Rules[i]
            IN  /\ ~ReachesValidation => jsonContext'.raw = entryContext.raw
                /\ (ReachesValidation /\ ~cancelled /\ ~rule.deny.isNil
                                       /\ rule.anyAllConditions = NoConditions) =>
                       /\ Len(resp'.rules) = Len(resp.rules) + 1
                       /\ resp'.rules[Len(resp'.rules)].status = DenyStatusAtEntry(rule)
       /\ pc' = "done" => jsonContext'.raw = entryContext'.raw]_vars

\* the first rule loaded x and the second, a rule for "o2" documents, was
\* rejected by the filter on a create of "o1"
C27_Witness ==
    /\ pc = "loop"
    /\ i = 3
    /\ Len(Rules) >= 2
    /\ Rules[1].context # <<>>
    /\ Rules[2].match = {"o2"}
    /\ newResource.Object = "o1" /\ oldResource.Object = Null
    /\ Len(resp.rules) = 1
    /\ jsonContext.raw = entryContext.raw

\* C28: in the response the generate filter returns, the applied counter
\* is the number of rule responses with status Pass or Fail and the errored
\* counter the number with status Error.
C28_FilterCounters ==
    pc = "done" =>
        /\ resp.rulesAppliedCount = CountStatus({RuleStatusPass, RuleStatusFail})
        /\ resp.rulesErrorCount = CountStatus({RuleStatusError})

\* the rule without its policy exceptions
WithoutExceptions(rule) == [rule EXCEPT !.exceptions = <<>>, !.findErr = FALSE]

\* what the body of the rule loop returns for the only rule of a policy
ResponseFor(rule) ==
    processRule([cancelled |-> cancelled], PolicyContext, rule,
                [jc |-> Checkpoint(entryContext), log |-> <<>>]).r

ElementsBetween(n, a, b) ==
    {e \in (a + 1)..(b - 1) : log[e].op = "element" /\ log[e].rule = n /\ log[e].nesting = 0}

\* C30: a block of a foreach rule whose list expression fails to evaluate
\* is passed over: none of its elements is evaluated and no Error comes of
\* it; the next block is evaluated, or, after the last block, the rule ends
\* Skip or Pass by the elements the other blocks applied; a rule all of
\* whose list expressions fail is Skip, and a Pass needs an applied element.
C30_FailingListIsSkipped ==
    \A j \in 1..Len(Rules) :
        LET rule == Rules[j]
            blocks == rule.forEach.blocks
            L == RuleSteps("evaluateList", rule.name)
            r == ResponseOf(rule.name)
        IN  RuleDid("validateForEach", rule.name) =>
              /\ \A k \in L :
                     LET b == DecOf(log[k].arg)
                     IN  blocks[b].list.err =>
                           IF b < Len(blocks)
                           THEN \E k2 \in L : /\ k2 > k
                                               /\ DecOf(log[k2].arg) = b + 1
                                               /\ ElementsBetween(rule.name, k, k2) = {}
                           ELSE /\ ElementsBetween(rule.name, k, Len(log) + 1) = {}
                                /\ \/ r.status = RuleStatusSkip /\ r.message.fmt = "rule skipped"
                                   \/ r.status = RuleStatusPass /\ r.message.fmt = "rule passed"
              /\ (Len(blocks) >= 1 /\ \A b \in 1..Len(blocks) : blocks[b].list.err) =>
                     /\ Cardinality(L) = Len(blocks)
                     /\ r.status = RuleStatusSkip
              /\ r.status = RuleStatusPass =>
                     \E e \in 1..Len(log) :
                         /\ log[e].op = "validated" /\ log[e].rule = rule.name /\ log[e].nesting = 0
                         /\ log[e].arg = RuleStatusPass

\* a rule whose first list expression fails and whose second block applies
\* elements: Pass
C30_Witness ==
    /\ pc = "done"
    /\ Len(Rules) = 1
    /\ Rules[1].forEach = ForEachList(<<FailingListBlock, ContextBlock>>)
    /\ Cardinality(RuleSteps("evaluateList", Rules[1].name)) = 2
    /\ ResponseOf(Rules[1].name).status = RuleStatusPass

====
